---- MODULE Spec2Model ----
(***************************************************************************)
(* A model of the idfx component library (skibu/idfx):                     *)
(*   - the PWM timer pool (PWMTimer), the channel set and OutputPWM of     *)
(*     src/src/hardware/io.cpp;                                            *)
(*   - the GPIO interrupt dispatcher (GpioInterrupteHandler, the internal  *)
(*     ISR, the event queue and the gpio_isr_task) of the second half of   *)
(*     src/src/hardware/pca9557.cpp.                                       *)
(* The two subsystems share no state; each has its own specification.     *)
(***************************************************************************)
EXTENDS Integers, Sequences, FiniteSets, TLC

(***************************************************************************)
(* Program constants.                                                      *)
(***************************************************************************)
\* Number of LEDC timers ("LEDC_TIMER_MAX, which is 4 for the ES32S3").
LEDC_TIMER_MAX == 4
\* Pins of the PCA9557, and bits of its registers (uint8_t).
PCA9557_BITS == 8
\* Number of LEDC channels ("LEDC_CHANNEL_MAX, which is 8 for ESP32S3").
LEDC_CHANNEL_MAX == 8
\* PWMTimer::MAX_DUTY (12 bit duty resolution).
MAX_DUTY == 4096
\* LEDC_TIMER_12_BIT, the .duty_resolution of every timer configuration.
LEDC_TIMER_12_BIT == 12
\* PWMTimer::kDefaultFrequency.
kDefaultFrequency == 1000
\* Length of gpio_event_queue_ : xQueueCreate(10, sizeof(queue_object_t)).
QUEUE_LEN == 10

(***************************************************************************)
(* Bounds of the model.                                                    *)
(***************************************************************************)
\* OutputPWM objects that can be alive at the same time.
MaxOutputs == 3
\* Timer references the application itself holds at the same time (the releases
\* it owes for its own getTimer / getAvailableTimer calls).
MaxHeld == 5
\* The same, in the specification of OutputPWM (SpecPWM).
MaxHeldPWM == 2
\* The same, in the specification of the frequencies (SpecFreq), and the
\* OutputPWM objects that exist at the same time there.
MaxHeldFreq == 3
MaxOutputsFreq == 2
\* The same, in the specification of the concurrent callers (SpecRace).
MaxHeldRace == 2
\* PWMTimer objects that exist at the same time in SpecRace.
MaxTimersRace == 2
\* Pins of the expander the application uses: 0 .. NumExpanderBits - 1.
NumExpanderBits == 3
\* OutputPWM objects that exist at the same time in SpecRace.
MaxOutputsRace == 2
\* PWMTimer objects with the same timer number that exist at the same time.
MaxSameTimer == 2
\* OutputPWM objects with the same channel that exist at the same time.
MaxSameChannel == 2
\* GPIO pins the application drives with PWM: 1..NumPwmPins.
NumPwmPins == 1
\* Application tasks that construct GpioInterrupteHandler objects.
NumTasks == 2
\* GPIO pins the application binds interrupt handlers to: 1..NumIrqPins.
NumIrqPins == 2
\* Distinct user callbacks (isr_function_t values): 1..NumCallbacks.
NumCallbacks == 2
\* GpioInterrupteHandler constructions begun over a run.
MaxBinds == 3
\* Hardware interrupts fired over a run (SpecDisp).
MaxIrq == 3
\* Hardware interrupts fired over a run that fills the queue (SpecFlood).
MaxFlood == 12

TimerNums == 0 .. (LEDC_TIMER_MAX - 1)
ChannelNums == 0 .. (LEDC_CHANNEL_MAX - 1)
\* Timer numbers a caller passes to getTimer: the first, the last, one past the end.
TimerArgs == {0, LEDC_TIMER_MAX - 1, LEDC_TIMER_MAX}
\* Channel numbers a caller passes to the two-argument OutputPWM constructor:
\* the first, and one past the end.
ChannelArgs == {0, LEDC_CHANNEL_MAX}
\* Frequencies a caller asks for.
Freqs == {kDefaultFrequency, 2 * kDefaultFrequency}
\* Addresses of PWMTimer objects.  The allocator of the model places the
\* objects of timer number n at n * MaxSameTimer + 1 .. (n + 1) * MaxSameTimer.
ObjIds == 1 .. (LEDC_TIMER_MAX * MaxSameTimer)
ObjIdsOf(n) == (n * MaxSameTimer + 1) .. ((n + 1) * MaxSameTimer)
\* Addresses of OutputPWM objects, placed by channel in the same way.
OutIds == 1 .. (LEDC_CHANNEL_MAX * MaxSameChannel)
OutIdsOf(c) == (c * MaxSameChannel + 1) .. ((c + 1) * MaxSameChannel)
PwmPins == 1 .. NumPwmPins
Tasks == 1 .. NumTasks
\* The gpio_isr_task tasks that can come to exist (one per xTaskCreate call).
Workers == 1 .. NumTasks
IrqPins == 1 .. NumIrqPins
Callbacks == 1 .. NumCallbacks
\* The null pointer.
NULL == 0

VARIABLES
    \* ---- io.cpp: the timer pool -------------------------------------------
    timers_in_use,   \* static std::map<ledc_timer_t, PWMTimer*>: timer number -> object
    heap,            \* the PWMTimer objects that exist: object -> its members
    held,            \* releases the application owes for its own getTimer /
                     \* getAvailableTimer calls: object -> count
    \* ---- io.cpp: OutputPWM --------------------------------------------------
    channels_used,   \* static std::set<ledc_channel_t>
    outputs,         \* the OutputPWM objects that exist: object -> its members
    \* ---- the LEDC peripheral ----------------------------------------------
    hwTimer,         \* timer number -> its committed configuration
    hwChannel,       \* channel number -> its committed configuration
    gpioReserved,    \* pins the LEDC driver has reserved
    halted,          \* the program has stopped: abort() of ESP_ERROR_CHECK, or a panic
    \* ---- what the last operation was and returned ---------------------------
    last,
    \* ---- pca9557.cpp (interrupts): the dispatcher ---------------------------
    initialized,         \* static bool initialized of initializeIfNeeded()
    gpio_event_queue_,   \* the content of the FreeRTOS queue, oldest first
    gpio_bit_data_map_,  \* static std::map<int, QueueData>: pin -> QueueData
    worker,              \* the gpio_isr_task tasks: where each is, and its `data`
    task,                \* the application tasks: where each is in the
                         \* GpioInterrupteHandler constructor, and its arguments
    \* ---- the GPIO driver ---------------------------------------------------
    isr_service,         \* gpio_install_isr_service() has succeeded
    isr_handlers,        \* pins gpioIsrHandler is hooked to (gpio_isr_handler_add)
    gpio_configured,     \* pins configured by gpio_config()
    \* ---- history of the dispatcher ------------------------------------------
    hist,                \* binds: constructor calls begun; fired: runs of
                         \* gpioIsrHandler; accepted: events the queue took;
                         \* invoked: callbacks called, invoked_seq: the place
                         \* among the accepted events of the last one called;
                         \* irq: the last interrupt and what became of it;
                         \* bound: pin -> callback of the constructors that
                         \* returned; rebound: pins for which a constructor
                         \* returned when one had returned before;
                         \* error_logged: ERROR() was called
    \* ---- the PCA9557 I/O expander behind pca9557.cpp (PCA9557) --------------
    config_register,       \* register 0x03: bit b is 1 when pin b is an input
    output_port_register,  \* register 0x01: the level pin b drives as an output
    pin_level,             \* bit b: the level the circuit puts on pin b while
                           \* the pin is an input
    config_calls           \* history: bit -> the last of configAsOutput /
                           \* configAsInput called for it ("none": neither)

\* The variables of the PWM side, `halted` apart.
pwmVars == <<timers_in_use, heap, held, channels_used, outputs,
             hwTimer, hwChannel, gpioReserved, last>>

\* The variables of the interrupt dispatcher.
dispVars == <<initialized, gpio_event_queue_, gpio_bit_data_map_, worker, task,
              isr_service, isr_handlers, gpio_configured, hist>>

\* The registers and the pins of the expander.
expVars == <<config_register, output_port_register, pin_level, config_calls>>

vars == <<pwmVars, halted, dispVars, expVars>>

(***************************************************************************)
(* Helpers over finite maps (std::map, and the heap).                      *)
(***************************************************************************)
EmptyMap == [x \in {} |-> 0]

MapPut(m, k, v) == [x \in (DOMAIN m) \cup {k} |-> IF x = k THEN v ELSE m[x]]

MapErase(m, k) == [x \in (DOMAIN m) \ {k} |-> m[x]]

Min(S) == CHOOSE x \in S : \A y \in S : x <= y

\* std::clamp(v, lo, hi)
Clamp(v, lo, hi) == IF v < lo THEN lo ELSE IF v > hi THEN hi ELSE v

\* operator new: an address not in use for a PWMTimer of timer number n
\* (NULL stands for none left within the bounds of the model).
NewObj(n) == IF ObjIdsOf(n) \ DOMAIN heap = {} THEN NULL
             ELSE Min(ObjIdsOf(n) \ DOMAIN heap)

UnconfiguredTimer == [configured |-> FALSE, freq_hz |-> 0, duty_resolution |-> 0]

\* A hardware timer after ledc_timer_config with .freq_hz = freq_hz: every
\* configuration the source commits has .duty_resolution = LEDC_TIMER_12_BIT.
ConfiguredTimer(freq_hz) ==
    [configured |-> TRUE, freq_hz |-> freq_hz, duty_resolution |-> LEDC_TIMER_12_BIT]

UnconfiguredChannel == [configured |-> FALSE, gpio_num |-> 0, duty |-> 0]

NoOp == [op |-> "none", arg |-> 0, ret |-> 0, res |-> "ok", calls |-> <<>>, warn |-> FALSE]

RECURSIVE SumOver(_, _)
SumOver(m, S) == IF S = {} THEN 0
                 ELSE LET x == CHOOSE y \in S : TRUE
                      IN m[x] + SumOver(m, S \ {x})

\* The number of releases the application owes.
HeldTotal == SumOver(held, DOMAIN held)

HeldOn(o) == IF o \in DOMAIN held THEN held[o] ELSE 0

(***************************************************************************)
(* PWMTimer::PWMTimer(timer_num, freq_hz): the members of the new object   *)
(* and the timer configuration it commits (ledc_timer_config).            *)
(***************************************************************************)
PWMTimerCtor(timer_num, freq_hz) ==
    [timer_num_      |-> Clamp(timer_num, 0, LEDC_TIMER_MAX - 1),
     freq_hz_        |-> freq_hz,
     num_references_ |-> 1]

\* PWMTimer::PWMTimer: WARN(...) when the number asked for was out of range.
PWMTimerCtorWarn(timer_num) == Clamp(timer_num, 0, LEDC_TIMER_MAX - 1) # timer_num

\* The calls PWMTimer::PWMTimer makes on the LEDC driver.
PWMTimerCtorCalls == <<"ledc_timer_config">>

\* The calls PWMTimer::~PWMTimer makes on the LEDC driver, in order.
PWMTimerDtorCalls == <<"ledc_timer_pause", "ledc_timer_config(deconfigure)">>

LedcTimerConfig(hw, num, freq_hz) ==
    [hw EXCEPT ![num] = ConfiguredTimer(freq_hz)]

\* PWMTimer::~PWMTimer(): ledc_timer_pause, then ledc_timer_config(deconfigure).
LedcTimerDeconfig(hw, num) == [hw EXCEPT ![num] = UnconfiguredTimer]

(***************************************************************************)
(* PWMTimer::getAvailableTimer(freq_hz): the first timer number that is    *)
(* not a key of timers_in_use, or LEDC_TIMER_MAX when there is none.       *)
(***************************************************************************)
FreeTimerNums == TimerNums \ DOMAIN timers_in_use

AvailableTimerNum == IF FreeTimerNums = {} THEN LEDC_TIMER_MAX ELSE Min(FreeTimerNums)

\* The effect of getAvailableTimer on the pool, as the values after the call;
\* ret is the pointer returned (NULL when every timer number is taken).
GetAvailableTimerResult(freq_hz) ==
    IF AvailableTimerNum = LEDC_TIMER_MAX
    THEN [ret |-> NULL, tiu |-> timers_in_use, heap |-> heap, hw |-> hwTimer,
          calls |-> <<>>, warn |-> FALSE]
    ELSE LET t == PWMTimerCtor(AvailableTimerNum, freq_hz)
             o == NewObj(t.timer_num_)
         IN [ret  |-> o,
             tiu  |-> MapPut(timers_in_use, AvailableTimerNum, o),
             heap |-> MapPut(heap, o, t),
             hw   |-> LedcTimerConfig(hwTimer, t.timer_num_, freq_hz),
             calls |-> PWMTimerCtorCalls,
             warn |-> PWMTimerCtorWarn(AvailableTimerNum)]

\* The application calls PWMTimer::getAvailableTimer(freq_hz).
getAvailableTimer(freq_hz) ==
    /\ ~halted
    /\ LET r == GetAvailableTimerResult(freq_hz)
       IN /\ AvailableTimerNum # LEDC_TIMER_MAX => r.ret # NULL /\ HeldTotal < MaxHeld
          /\ timers_in_use' = r.tiu
          /\ heap' = r.heap
          /\ hwTimer' = r.hw
          /\ held' = IF r.ret = NULL THEN held ELSE MapPut(held, r.ret, 1)
          /\ last' = [op |-> "getAvailableTimer", arg |-> freq_hz, ret |-> r.ret,
                      res |-> IF r.ret = NULL THEN "null" ELSE "ok",
                      calls |-> r.calls, warn |-> r.warn]
    /\ UNCHANGED <<channels_used, outputs, hwChannel, gpioReserved, halted>>
    /\ UNCHANGED <<dispVars, expVars>>

(***************************************************************************)
(* PWMTimer::getTimer(timer_num, freq_hz).                                 *)
(***************************************************************************)
\* The map after getTimer has created object o for timer number num: the
\* source leaves timers_in_use as it is (only getAvailableTimer records the
\* timer it creates).
GetTimerRecord(tiu, num, o) == tiu

\* getTimer() that returns a registered timer without counting the reference.
GetTimerResultNoCount(timer_num, freq_hz) ==
    IF timer_num \in DOMAIN timers_in_use
    THEN [ret  |-> timers_in_use[timer_num],
          tiu  |-> timers_in_use,
          heap |-> heap,
          hw   |-> hwTimer,
          calls |-> <<>>, warn |-> FALSE]
    ELSE LET t == PWMTimerCtor(timer_num, freq_hz)
             o == NewObj(t.timer_num_)
         IN [ret  |-> o,
             tiu  |-> GetTimerRecord(timers_in_use, t.timer_num_, o),
             heap |-> MapPut(heap, o, t),
             hw   |-> LedcTimerConfig(hwTimer, t.timer_num_, freq_hz),
             calls |-> PWMTimerCtorCalls,
             warn |-> PWMTimerCtorWarn(timer_num)]

\* The effect of getTimer on the pool, as the values after the call.
GetTimerResult(timer_num, freq_hz) ==
    IF timer_num \in DOMAIN timers_in_use
    THEN \* timer already exists: increment reference count and return it
         LET o == timers_in_use[timer_num]
         IN [ret  |-> o,
             tiu  |-> timers_in_use,
             heap |-> [heap EXCEPT ![o].num_references_ = @ + 1],
             hw   |-> hwTimer,
             calls |-> <<>>, warn |-> FALSE]
    ELSE \* timer doesn't already exist so create it
         LET t == PWMTimerCtor(timer_num, freq_hz)
             o == NewObj(t.timer_num_)
         IN [ret  |-> o,
             tiu  |-> GetTimerRecord(timers_in_use, t.timer_num_, o),
             heap |-> MapPut(heap, o, t),
             hw   |-> LedcTimerConfig(hwTimer, t.timer_num_, freq_hz),
             calls |-> PWMTimerCtorCalls,
             warn |-> PWMTimerCtorWarn(timer_num)]

\* The application calls PWMTimer::getTimer(timer_num, freq_hz).
getTimer(timer_num, freq_hz) ==
    /\ ~halted
    /\ HeldTotal < MaxHeld
    /\ LET r == GetTimerResult(timer_num, freq_hz)
       IN /\ r.ret # NULL
          /\ timers_in_use' = r.tiu
          /\ heap' = r.heap
          /\ hwTimer' = r.hw
          /\ held' = MapPut(held, r.ret, HeldOn(r.ret) + 1)
          /\ last' = [op |-> "getTimer", arg |-> timer_num, ret |-> r.ret, res |-> "ok",
                      calls |-> r.calls, warn |-> r.warn]
    /\ UNCHANGED <<channels_used, outputs, hwChannel, gpioReserved, halted>>
    /\ UNCHANGED <<dispVars, expVars>>

(***************************************************************************)
(* PWMTimer::doneWithTimer() on object o.                                  *)
(***************************************************************************)
\* doneWithTimer() that destructs the timer at count 0 and forgets to erase its
\* number from timers_in_use.
DoneWithTimerNoErase(o) ==
    IF heap[o].num_references_ - 1 = 0
    THEN [tiu  |-> timers_in_use,
          heap |-> MapErase(heap, o),
          hw   |-> LedcTimerDeconfig(hwTimer, heap[o].timer_num_),
          calls |-> PWMTimerDtorCalls]
    ELSE [tiu  |-> timers_in_use,
          heap |-> [heap EXCEPT ![o].num_references_ = @ - 1],
          hw   |-> hwTimer,
          calls |-> <<>>]

\* The pool after o->doneWithTimer().
DoneWithTimerResult(o) ==
    IF heap[o].num_references_ - 1 = 0
    THEN [tiu  |-> MapErase(timers_in_use, heap[o].timer_num_),
          heap |-> MapErase(heap, o),
          hw   |-> LedcTimerDeconfig(hwTimer, heap[o].timer_num_),
          calls |-> <<"timers_in_use.erase">> \o PWMTimerDtorCalls]
    ELSE [tiu  |-> timers_in_use,
          heap |-> [heap EXCEPT ![o].num_references_ = @ - 1],
          hw   |-> hwTimer,
          calls |-> <<>>]

\* The application releases one of the references it holds on o.
doneWithTimer(o) ==
    /\ ~halted
    /\ o \in DOMAIN held
    /\ LET r == DoneWithTimerResult(o)
       IN /\ timers_in_use' = r.tiu
          /\ heap' = r.heap
          /\ hwTimer' = r.hw
          /\ last' = [op |-> "doneWithTimer", arg |-> o, ret |-> 0, res |-> "ok",
                      calls |-> r.calls, warn |-> FALSE]
    /\ held' = IF held[o] = 1 THEN MapErase(held, o) ELSE [held EXCEPT ![o] = @ - 1]
    /\ UNCHANGED <<channels_used, outputs, hwChannel, gpioReserved, halted>>
    /\ UNCHANGED <<dispVars, expVars>>

(***************************************************************************)
(* OutputPWM.                                                              *)
(***************************************************************************)
\* get_available_channel() that falls back to LEDC_CHANNEL_0 when every
\* channel is used.
get_available_channel_default ==
    IF ChannelNums \ channels_used = {} THEN 0
    ELSE Min(ChannelNums \ channels_used)

\* get_available_channel() that scans the channels from the highest down.
get_available_channel_highest ==
    IF ChannelNums \ channels_used = {} THEN LEDC_CHANNEL_MAX
    ELSE CHOOSE c \in ChannelNums \ channels_used :
             \A d \in ChannelNums \ channels_used : d <= c

\* OutputPWM::get_available_channel(): the first channel not in
\* channels_used, or LEDC_CHANNEL_MAX when every channel is used.
get_available_channel ==
    IF ChannelNums \ channels_used = {} THEN LEDC_CHANNEL_MAX
    ELSE Min(ChannelNums \ channels_used)

\* What a load through a null PWMTimer* can do: the panic handler stops the
\* program, or the load yields whatever is at that address.
NullDeref == {"panic", "garbage"}

\* duty_ has no initializer: until setDutyValue() stores into it the member
\* holds an indeterminate value, written Indeterminate.
Indeterminate == -1

\* What a read through a null PWMTimer* of its timer number yields when the
\* load does not fault: a valid timer number, or not.
GarbageTimerSel == {0, LEDC_TIMER_MAX}

\* The pools as an observer sees them: the channels marked used, and the
\* live timers (by timer number) with their reference counts.
PoolSnapshot ==
    [channels_used |-> channels_used,
     timers |-> {<<heap[o].timer_num_, heap[o].num_references_>> : o \in DOMAIN heap}]

\* ledc_channel_config() accepts the configuration.
ChannelConfigOk(channel, timer_sel) ==
    channel \in ChannelNums /\ timer_sel \in TimerNums

\* The construction of an OutputPWM on `channel` comes to its end, with a
\* live object: it neither faults on the null pointer nor is aborted by
\* ESP_ERROR_CHECK.
CtorCompletes(channel, ub, junk) ==
    LET r == GetAvailableTimerResult(kDefaultFrequency)
        timer_sel == IF r.ret = NULL THEN junk ELSE r.heap[r.ret].timer_num_
    IN ~(r.ret = NULL /\ ub = "panic") /\ ChannelConfigOk(channel, timer_sel)

\* OutputPWM::OutputPWM(gpio_num, channel), called as `op`.  ub is the
\* outcome taken where the behaviour is undefined, junk the value a load
\* through the null pointer yields.
OutputPWMCtor(op, gpio_num, channel, ub, junk) ==
    LET r  == GetAvailableTimerResult(kDefaultFrequency)
        id == IF channel \in ChannelNums /\ OutIdsOf(channel) \ DOMAIN outputs # {}
              THEN Min(OutIdsOf(channel) \ DOMAIN outputs) ELSE NULL
        \* timer_ptr_->getTimer(): the timer's number, or garbage through NULL
        timer_sel == IF r.ret = NULL
                     THEN junk
                     ELSE r.heap[r.ret].timer_num_
    IN
    /\ ~halted
    \* the bounds of the model, on the objects that come to exist
    /\ AvailableTimerNum # LEDC_TIMER_MAX => r.ret # NULL
    /\ CtorCompletes(channel, ub, junk) => id # NULL
    /\ IF r.ret = NULL /\ ub = "panic"
       THEN \* speed_mode_(timer_ptr_->getSpeedMode()) faults on the null pointer
            /\ halted' = TRUE
            /\ last' = [op |-> op, arg |-> 0, ret |-> 0, res |-> "panic",
                        calls |-> <<>>, warn |-> FALSE]
            /\ UNCHANGED <<timers_in_use, heap, held, channels_used, outputs,
                           hwTimer, hwChannel, gpioReserved>>
       ELSE /\ timers_in_use' = r.tiu
            /\ heap' = r.heap
            /\ hwTimer' = r.hw
            /\ channels_used' = channels_used \cup {channel}
            /\ UNCHANGED held
            /\ IF ChannelConfigOk(channel, timer_sel)
               THEN /\ hwChannel' = [hwChannel EXCEPT ![channel] =
                                        [configured |-> TRUE, gpio_num |-> gpio_num,
                                         duty |-> 0]]
                    /\ gpioReserved' = gpioReserved \cup {gpio_num}
                    /\ outputs' = MapPut(outputs, id,
                                         [gpio_num_ |-> gpio_num, channel_ |-> channel,
                                          timer_ptr_ |-> r.ret, duty_ |-> Indeterminate])
                    \* (pre: the pools as they were when the constructor was entered)
                    /\ last' = [op |-> op, arg |-> 0, ret |-> id, res |-> "ok",
                                calls |-> r.calls \o <<"ledc_channel_config">>,
                                warn |-> FALSE, pre |-> PoolSnapshot]
                    /\ UNCHANGED halted
               ELSE \* ESP_ERROR_CHECK(ledc_channel_config(...)) aborts
                    /\ halted' = TRUE
                    /\ last' = [op |-> op, arg |-> 0, ret |-> 0, res |-> "abort",
                                calls |-> r.calls \o <<"ledc_channel_config">>,
                                warn |-> FALSE]
                    /\ UNCHANGED <<hwChannel, gpioReserved, outputs>>

\* OutputPWM(gpio_num): delegates with get_available_channel().
OutputPWM1(gpio_num, ub, junk) ==
    /\ OutputPWMCtor("OutputPWM(gpio_num)", gpio_num, get_available_channel, ub, junk)
    /\ UNCHANGED <<dispVars, expVars>>

\* OutputPWM(gpio_num, channel).
OutputPWM2(gpio_num, channel, ub, junk) ==
    /\ OutputPWMCtor("OutputPWM(gpio_num,channel)", gpio_num, channel, ub, junk)
    /\ UNCHANGED <<dispVars, expVars>>

\* The application calls the static OutputPWM::get_available_channel().
GetAvailableChannel ==
    /\ ~halted
    /\ last' = [op |-> "get_available_channel", arg |-> 0,
                ret |-> get_available_channel, res |-> "ok",
                calls |-> <<>>, warn |-> FALSE]
    /\ UNCHANGED <<timers_in_use, heap, held, channels_used, outputs,
                   hwTimer, hwChannel, gpioReserved, halted>>
    /\ UNCHANGED <<dispVars, expVars>>

\* OutputPWM::~OutputPWM() of object id.
OutputPWMDtor(id, ub) ==
    LET out == outputs[id]
    IN
    /\ ~halted
    /\ UNCHANGED <<dispVars, expVars>>
    /\ id \in DOMAIN outputs
    /\ IF out.timer_ptr_ = NULL /\ ub = "panic"
       THEN \* timer_ptr_->doneWithTimer() faults on the null pointer
            /\ halted' = TRUE
            /\ last' = [op |-> "~OutputPWM", arg |-> id, ret |-> 0, res |-> "panic",
                        calls |-> <<>>, warn |-> FALSE]
            /\ UNCHANGED <<timers_in_use, heap, held, channels_used, outputs,
                           hwTimer, hwChannel, gpioReserved>>
       ELSE /\ IF out.timer_ptr_ = NULL
               THEN /\ UNCHANGED <<timers_in_use, heap, hwTimer>>
                    /\ last' = [op |-> "~OutputPWM", arg |-> id, ret |-> 0, res |-> "ok",
                                calls |-> <<"esp_gpio_revoke">>, warn |-> FALSE]
               ELSE LET r == DoneWithTimerResult(out.timer_ptr_)
                    IN /\ timers_in_use' = r.tiu
                       /\ heap' = r.heap
                       /\ hwTimer' = r.hw
                       /\ last' = [op |-> "~OutputPWM", arg |-> id, ret |-> 0,
                                   res |-> "ok",
                                   calls |-> r.calls \o <<"esp_gpio_revoke">>,
                                   warn |-> FALSE]
            \* esp_gpio_revoke(BIT64(gpio_num_))
            /\ gpioReserved' = gpioReserved \ {out.gpio_num_}
            /\ channels_used' = channels_used \ {out.channel_}
            /\ outputs' = MapErase(outputs, id)
            /\ UNCHANGED <<held, hwChannel, halted>>

\* setDutyValue() that stores the requested value as it is.
ClampDutyNone(duty) == duty

\* The value setDutyValue(duty) stores: MAX_DUTY when duty exceeds it.
ClampDuty(duty) == IF duty > MAX_DUTY THEN MAX_DUTY ELSE duty

\* The uint32_t values setDutyValue() is called with (2147483647 stands for
\* the large ones: TLC's integers end there).
DutyArgs == {0, MAX_DUTY, MAX_DUTY + 1, 5000, 2147483647}

\* OutputPWM::setDutyValue(duty) on object id.
setDutyValue(id, duty) ==
    /\ ~halted
    /\ UNCHANGED <<dispVars, expVars>>
    /\ id \in DOMAIN outputs
    /\ outputs' = [outputs EXCEPT ![id].duty_ = ClampDuty(duty)]
    \* ledc_set_duty(speed_mode_, channel_, duty_); ledc_update_duty(speed_mode_, channel_)
    /\ hwChannel' = [hwChannel EXCEPT ![outputs[id].channel_].duty = ClampDuty(duty)]
    /\ last' = [op |-> "setDutyValue", arg |-> duty, ret |-> 0, res |-> "ok",
                calls |-> <<"ledc_set_duty", "ledc_update_duty">>,
                warn |-> duty > MAX_DUTY, obj |-> id]
    /\ UNCHANGED <<timers_in_use, heap, held, channels_used, hwTimer,
                   gpioReserved, halted>>

\* The percentages setDuty() is called with, in quarters of a percent (each
\* is exactly a float): 0, 0.25, 1, 12.5, 50, 99.75 and 100 percent.
Percents == {0, 1, 4, 50, 200, 399, 400}

\* setDuty(): percentage * PWMTimer::MAX_DUTY / 100.0 is a double; passing it
\* as the uint32_t parameter of setDutyValue discards its fractional part.
DutyOfPercent(q) == (q * MAX_DUTY) \div (4 * 100)

\* OutputPWM::setDuty(percentage) on object id; q is the percentage in
\* quarters of a percent.
setDuty(id, q) ==
    /\ ~halted
    /\ UNCHANGED <<dispVars, expVars>>
    /\ id \in DOMAIN outputs
    \* setDutyValue(percentage * PWMTimer::MAX_DUTY / 100.0)
    /\ outputs' = [outputs EXCEPT ![id].duty_ = ClampDuty(DutyOfPercent(q))]
    /\ hwChannel' = [hwChannel EXCEPT ![outputs[id].channel_].duty =
                                          ClampDuty(DutyOfPercent(q))]
    /\ last' = [op |-> "setDuty", arg |-> q, ret |-> 0, res |-> "ok",
                calls |-> <<"ledc_set_duty", "ledc_update_duty">>,
                warn |-> DutyOfPercent(q) > MAX_DUTY, obj |-> id]
    /\ UNCHANGED <<timers_in_use, heap, held, channels_used, hwTimer,
                   gpioReserved, halted>>

\* The frequencies setFrequency() is called with; ledc_timer_config()
\* rejects 0.
SetFreqs == Freqs \cup {0}

\* PWMTimer::setFrequency() that rewrites every configured hardware timer.
PWMTimer_setFrequencyAll(o, freq_hz) ==
    /\ ~halted
    /\ UNCHANGED <<dispVars, expVars>>
    /\ o \in DOMAIN held
    /\ o \in DOMAIN heap
    /\ hwTimer' = [n \in TimerNums |->
                      IF hwTimer[n].configured \/ n = heap[o].timer_num_
                      THEN ConfiguredTimer(freq_hz) ELSE hwTimer[n]]
    /\ last' = [op |-> "PWMTimer::setFrequency", arg |-> freq_hz, ret |-> 0,
                res |-> "ok", calls |-> <<"ledc_timer_config">>,
                warn |-> FALSE, obj |-> o]
    /\ UNCHANGED <<timers_in_use, heap, held, channels_used, outputs,
                   hwChannel, gpioReserved, halted>>

\* PWMTimer::setFrequency(freq_hz) on the timer o the application holds.
PWMTimer_setFrequency(o, freq_hz) ==
    /\ ~halted
    /\ UNCHANGED <<dispVars, expVars>>
    /\ o \in DOMAIN held
    /\ o \in DOMAIN heap
    /\ IF freq_hz # 0
       THEN /\ hwTimer' = LedcTimerConfig(hwTimer, heap[o].timer_num_, freq_hz)
            /\ last' = [op |-> "PWMTimer::setFrequency", arg |-> freq_hz, ret |-> 0,
                        res |-> "ok", calls |-> <<"ledc_timer_config">>,
                        warn |-> FALSE, obj |-> o]
            /\ UNCHANGED halted
       ELSE \* ESP_ERROR_CHECK(ledc_timer_config(&ledc_timer)) aborts
            /\ halted' = TRUE
            /\ last' = [op |-> "PWMTimer::setFrequency", arg |-> freq_hz, ret |-> 0,
                        res |-> "abort", calls |-> <<"ledc_timer_config">>,
                        warn |-> FALSE, obj |-> o]
            /\ UNCHANGED hwTimer
    /\ UNCHANGED <<timers_in_use, heap, held, channels_used, outputs,
                   hwChannel, gpioReserved>>

\* The values a read of duty_ of object id can yield: the member has no
\* initializer, so until something is stored the read yields any value.
DutyReads(id) ==
    IF outputs[id].duty_ = Indeterminate THEN DutyArgs ELSE {outputs[id].duty_}

\* The outcomes of the undefined behaviour OutputPWM::setFrequency can meet
\* on object id: timer_ptr_ may be nullptr.
SetFrequencyUB(id) ==
    IF outputs[id].timer_ptr_ = NULL
    THEN {<<"panic", 0>>} \cup ({"garbage"} \X GarbageTimerSel)
    ELSE {<<"defined", 0>>}

\* OutputPWM::setFrequency(freq_hz) on object id.  ub and junk are the
\* outcome of a call through a null timer_ptr_, duty the value the read of
\* duty_ yields.
OutputPWM_setFrequency(id, freq_hz, ub, junk, duty) ==
    LET out == outputs[id]
        timer_num == IF out.timer_ptr_ = NULL THEN junk
                     ELSE heap[out.timer_ptr_].timer_num_
    IN
    /\ ~halted
    /\ UNCHANGED <<dispVars, expVars>>
    /\ id \in DOMAIN outputs
    /\ duty \in DutyReads(id)
    /\ UNCHANGED <<timers_in_use, heap, held, channels_used, gpioReserved>>
    /\ IF out.timer_ptr_ = NULL /\ ub = "panic"
       THEN \* timer_ptr_->setFrequency(freq_hz) faults on the null pointer
            /\ halted' = TRUE
            /\ last' = [op |-> "OutputPWM::setFrequency", arg |-> freq_hz, ret |-> 0,
                        res |-> "panic", calls |-> <<>>, warn |-> FALSE, obj |-> id]
            /\ UNCHANGED <<outputs, hwTimer, hwChannel>>
       ELSE IF freq_hz = 0 \/ timer_num \notin TimerNums
       THEN \* ESP_ERROR_CHECK(ledc_timer_config(&ledc_timer)) aborts
            /\ halted' = TRUE
            /\ last' = [op |-> "OutputPWM::setFrequency", arg |-> freq_hz, ret |-> 0,
                        res |-> "abort", calls |-> <<"ledc_timer_config">>,
                        warn |-> FALSE, obj |-> id]
            /\ UNCHANGED <<outputs, hwTimer, hwChannel>>
       ELSE /\ hwTimer' = LedcTimerConfig(hwTimer, timer_num, freq_hz)
            \* setDutyValue(duty_)
            /\ outputs' = [outputs EXCEPT ![id].duty_ = ClampDuty(duty)]
            /\ hwChannel' = [hwChannel EXCEPT ![out.channel_].duty = ClampDuty(duty)]
            /\ last' = [op |-> "OutputPWM::setFrequency", arg |-> freq_hz, ret |-> 0,
                        res |-> "ok",
                        calls |-> <<"ledc_timer_config", "ledc_set_duty",
                                    "ledc_update_duty">>,
                        warn |-> duty > MAX_DUTY, obj |-> id]
            /\ UNCHANGED halted

(***************************************************************************)
(* The pool functions as two application tasks run them: nothing in the    *)
(* source serializes them, so a task can be preempted between the scan of  *)
(* a pool and the insertion, and between the read and the write of         *)
(* num_references_.  task[t] holds the position and the locals of task t.  *)
(***************************************************************************)
\* An application task outside the constructor and the pool functions.
IdleTask == [pc |-> "idle", gpio_num |-> 0, individual_isr_for_bit |-> NULL]

\* Task t inside a pool function: at `pc`, with the number it found, the
\* object it works on and the value it read.
PoolTask(pc, num, obj, val) ==
    [pc |-> pc, gpio_num |-> 0, individual_isr_for_bit |-> NULL,
     num |-> num, obj |-> obj, val |-> val]

\* What a write through a pointer to a deleted PWMTimer can do.
UseAfterFree == {"panic", "ignored"}

\* The frame of the steps below: the dispatcher but for `task`.
dispRest == <<initialized, gpio_event_queue_, gpio_bit_data_map_, worker,
              isr_service, isr_handlers, gpio_configured, hist>>

\* getAvailableTimer(): the loop finds the first number that is not a key of
\* timers_in_use (or returns nullptr).
GatFind(t, freq_hz) ==
    /\ ~halted
    /\ task[t].pc = "idle"
    /\ IF AvailableTimerNum = LEDC_TIMER_MAX
       THEN /\ last' = [op |-> "getAvailableTimer", arg |-> freq_hz, ret |-> NULL,
                        res |-> "null", calls |-> <<>>, warn |-> FALSE]
            /\ UNCHANGED task
       ELSE /\ task' = [task EXCEPT ![t] =
                           PoolTask("gat_found", AvailableTimerNum, NULL, freq_hz)]
            /\ UNCHANGED last
    /\ UNCHANGED <<timers_in_use, heap, held, channels_used, outputs,
                   hwTimer, hwChannel, gpioReserved, halted>>
    /\ UNCHANGED <<dispRest, expVars>>

\* getAvailableTimer(): new PWMTimer(timer_num, freq_hz);
\* timers_in_use[timer_num] = new_timer_ptr; return new_timer_ptr.
GatCreate(t) ==
    LET timer == PWMTimerCtor(task[t].num, task[t].val)
        o == NewObj(task[t].num)
    IN
    /\ ~halted
    /\ task[t].pc = "gat_found"
    /\ o # NULL
    /\ heap' = MapPut(heap, o, timer)
    /\ hwTimer' = LedcTimerConfig(hwTimer, timer.timer_num_, task[t].val)
    /\ timers_in_use' = MapPut(timers_in_use, task[t].num, o)
    /\ held' = MapPut(held, o, 1)
    /\ last' = [op |-> "getAvailableTimer", arg |-> task[t].val, ret |-> o,
                res |-> "ok", calls |-> PWMTimerCtorCalls, warn |-> FALSE]
    /\ task' = [task EXCEPT ![t] = IdleTask]
    /\ UNCHANGED <<channels_used, outputs, hwChannel, gpioReserved, halted>>
    /\ UNCHANGED <<dispRest, expVars>>

\* getTimer(timer_num) for a number that is in timers_in_use:
\* num_references_++ reads the count ...
GtRead(t, timer_num) ==
    /\ ~halted
    /\ task[t].pc = "idle"
    /\ timer_num \in DOMAIN timers_in_use
    /\ timers_in_use[timer_num] \in DOMAIN heap
    /\ task' = [task EXCEPT ![t] =
                   PoolTask("gt_read", timer_num, timers_in_use[timer_num],
                            heap[timers_in_use[timer_num]].num_references_)]
    /\ UNCHANGED <<timers_in_use, heap, held, channels_used, outputs,
                   hwTimer, hwChannel, gpioReserved, halted, last>>
    /\ UNCHANGED <<dispRest, expVars>>

\* ... and writes it back incremented; the pointer is returned.
GtWrite(t, uaf) ==
    LET o == task[t].obj
    IN
    /\ ~halted
    /\ task[t].pc = "gt_read"
    /\ IF o \in DOMAIN heap
       THEN /\ heap' = [heap EXCEPT ![o].num_references_ = task[t].val + 1]
            /\ held' = MapPut(held, o, HeldOn(o) + 1)
            /\ UNCHANGED halted
       ELSE \* the timer was deleted meanwhile
            /\ halted' = (uaf = "panic")
            /\ UNCHANGED <<heap, held>>
    /\ last' = [op |-> "getTimer", arg |-> task[t].num, ret |-> o, res |-> "ok",
                calls |-> <<>>, warn |-> FALSE]
    /\ task' = [task EXCEPT ![t] = IdleTask]
    /\ UNCHANGED <<timers_in_use, channels_used, outputs,
                   hwTimer, hwChannel, gpioReserved>>
    /\ UNCHANGED <<dispRest, expVars>>

\* o->doneWithTimer() by a task that holds o: --num_references_ reads the
\* count ...
DwRead(t, o) ==
    /\ ~halted
    /\ task[t].pc = "idle"
    /\ o \in DOMAIN held
    /\ o \in DOMAIN heap
    /\ HeldOn(o) > Cardinality({u \in Tasks : task[u].pc = "dw_read" /\ task[u].obj = o})
    /\ task' = [task EXCEPT ![t] =
                   PoolTask("dw_read", heap[o].timer_num_, o, heap[o].num_references_)]
    /\ UNCHANGED <<timers_in_use, heap, held, channels_used, outputs,
                   hwTimer, hwChannel, gpioReserved, halted, last>>
    /\ UNCHANGED <<dispRest, expVars>>

\* ... writes it back decremented and, when that is 0, erases the number
\* from timers_in_use and deletes the timer.
DwWrite(t, uaf) ==
    LET o == task[t].obj
    IN
    /\ ~halted
    /\ task[t].pc = "dw_read"
    /\ IF o \notin DOMAIN heap
       THEN \* the timer was deleted meanwhile
            /\ halted' = (uaf = "panic")
            /\ UNCHANGED <<timers_in_use, heap, hwTimer>>
            /\ last' = [op |-> "doneWithTimer", arg |-> o, ret |-> 0, res |-> uaf,
                        calls |-> <<>>, warn |-> FALSE]
       ELSE /\ IF task[t].val - 1 = 0
               THEN /\ timers_in_use' = MapErase(timers_in_use, task[t].num)
                    /\ heap' = MapErase(heap, o)
                    /\ hwTimer' = LedcTimerDeconfig(hwTimer, task[t].num)
               ELSE /\ heap' = [heap EXCEPT ![o].num_references_ = task[t].val - 1]
                    /\ UNCHANGED <<timers_in_use, hwTimer>>
            /\ last' = [op |-> "doneWithTimer", arg |-> o, ret |-> 0, res |-> "ok",
                        calls |-> IF task[t].val - 1 = 0
                                  THEN <<"timers_in_use.erase">> \o PWMTimerDtorCalls
                                  ELSE <<>>,
                        warn |-> FALSE]
            /\ UNCHANGED halted
    /\ held' = IF HeldOn(o) <= 1 THEN MapErase(held, o)
               ELSE MapPut(held, o, HeldOn(o) - 1)
    /\ task' = [task EXCEPT ![t] = IdleTask]
    /\ UNCHANGED <<channels_used, outputs, hwChannel, gpioReserved>>
    /\ UNCHANGED <<dispRest, expVars>>

\* OutputPWM(gpio_num): the argument get_available_channel() of the
\* delegated constructor is evaluated ...
ChanFind(t, gpio_num) ==
    /\ ~halted
    /\ task[t].pc = "idle"
    /\ task' = [task EXCEPT ![t] =
                   PoolTask("ctor_channel", get_available_channel, NULL, gpio_num)]
    /\ UNCHANGED <<timers_in_use, heap, held, channels_used, outputs,
                   hwTimer, hwChannel, gpioReserved, halted, last>>
    /\ UNCHANGED <<dispRest, expVars>>

\* ... and OutputPWM(gpio_num, channel) runs with it.
ChanCtor(t, ub, junk) ==
    /\ task[t].pc = "ctor_channel"
    /\ OutputPWMCtor("OutputPWM(gpio_num)", task[t].val, task[t].num, ub, junk)
    /\ task' = [task EXCEPT ![t] = IdleTask]
    /\ UNCHANGED <<dispRest, expVars>>

\* ~OutputPWM() of an object whose timer was deleted under it (a lost
\* reference-count update let the count reach 0 early):
\* timer_ptr_->doneWithTimer() writes through the dangling pointer, then the
\* pin is revoked and the channel erased.
OutputPWMDtorDangling(id, uaf) ==
    /\ ~halted
    /\ id \in DOMAIN outputs
    /\ outputs[id].timer_ptr_ # NULL
    /\ outputs[id].timer_ptr_ \notin DOMAIN heap
    /\ halted' = (uaf = "panic")
    /\ IF uaf = "panic"
       THEN UNCHANGED <<gpioReserved, channels_used, outputs>>
       ELSE /\ gpioReserved' = gpioReserved \ {outputs[id].gpio_num_}
            /\ channels_used' = channels_used \ {outputs[id].channel_}
            /\ outputs' = MapErase(outputs, id)
    /\ last' = [op |-> "~OutputPWM", arg |-> id, ret |-> 0, res |-> uaf,
                calls |-> IF uaf = "panic" THEN <<>> ELSE <<"esp_gpio_revoke">>,
                warn |-> FALSE]
    /\ UNCHANGED <<timers_in_use, heap, held, hwTimer, hwChannel>>
    /\ UNCHANGED <<dispVars, expVars>>

(***************************************************************************)
(* PCA9557 (pca9557.cpp): the I2C I/O expander.  A register is a uint8_t,   *)
(* kept as a number 0 .. 255; the I2C transfers are taken to succeed.      *)
(***************************************************************************)
ExpanderBits == 0 .. (NumExpanderBits - 1)
RegisterBits == 0 .. (PCA9557_BITS - 1)

\* (value >> b) & 1
BitOf(value, b) == (value \div (2 ^ b)) % 2

\* (uint8_t)(value | (1 << b))
BitSet(value, b) == IF BitOf(value, b) = 1 THEN value ELSE value + 2 ^ b

\* (uint8_t)(value & ~(1 << b))
BitClear(value, b) == IF BitOf(value, b) = 1 THEN value - 2 ^ b ELSE value

\* Register 0x00 (CURRENT_VALUES_REGISTER), the input port register of the
\* chip: the level at each pin, which is the level the circuit gives for a
\* pin configured as an input and the output port bit for a pin the chip
\* drives (the polarity register is 0x00 since the constructor).
InputPortBit(b) ==
    IF BitOf(config_register, b) = 1 THEN BitOf(pin_level, b)
    ELSE BitOf(output_port_register, b)

RECURSIVE InputPortBelow(_)
\* The bits below n of the byte read from register 0x00.
InputPortBelow(n) ==
    IF n = 0 THEN 0 ELSE InputPortBelow(n - 1) + InputPortBit(n - 1) * 2 ^ (n - 1)

InputPortRegister == InputPortBelow(PCA9557_BITS)

\* The frame of the PCA9557 functions: the PWM side but for `last`, and the
\* dispatcher.
pwmRest == <<timers_in_use, heap, held, channels_used, outputs,
             hwTimer, hwChannel, gpioReserved>>

\* configAsOutput() that writes the mask of the bit alone, without the read.
ConfigAsOutputMaskOnly(config, io_bit) == BitClear(2 ^ PCA9557_BITS - 1, io_bit)

\* configAsOutput: new_value = result[0] & ~(1 << io_bit).
ConfigAsOutputValue(config, io_bit) == BitClear(config, io_bit)

\* configAsInput: new_value = result[0] | (1 << io_bit).
ConfigAsInputValue(config, io_bit) == BitSet(config, io_bit)

\* PCA9557::configAsOutput(io_bit): reads CONFIG_REGISTER and writes it back
\* with the bit cleared.
configAsOutput(io_bit) ==
    /\ ~halted
    /\ config_register' = ConfigAsOutputValue(config_register, io_bit)
    /\ last' = [op |-> "PCA9557::configAsOutput", arg |-> io_bit, ret |-> 0,
                res |-> "ok", calls |-> <<"read CONFIG_REGISTER", "write CONFIG_REGISTER">>,
                warn |-> FALSE]
    /\ config_calls' = [config_calls EXCEPT ![io_bit] = "configAsOutput"]
    /\ UNCHANGED <<output_port_register, pin_level, pwmRest, halted, dispVars>>

\* PCA9557::configAsInput(io_bit): reads CONFIG_REGISTER and writes it back
\* with the bit set.
configAsInput(io_bit) ==
    /\ ~halted
    /\ config_register' = ConfigAsInputValue(config_register, io_bit)
    /\ last' = [op |-> "PCA9557::configAsInput", arg |-> io_bit, ret |-> 0,
                res |-> "ok", calls |-> <<"read CONFIG_REGISTER", "write CONFIG_REGISTER">>,
                warn |-> FALSE]
    /\ config_calls' = [config_calls EXCEPT ![io_bit] = "configAsInput"]
    /\ UNCHANGED <<output_port_register, pin_level, pwmRest, halted, dispVars>>

\* setBit: new_value = result[0] with the bit set or cleared.
SetBitValue(value, io_bit, on) ==
    IF on THEN BitSet(value, io_bit) ELSE BitClear(value, io_bit)

\* PCA9557::setBit(io_bit, on): reads CURRENT_VALUES_REGISTER (0x00) and
\* writes the changed value to OUTPUT_PORT_REGISTER (0x01).
setBit(io_bit, on) ==
    /\ ~halted
    /\ output_port_register' = SetBitValue(InputPortRegister, io_bit, on)
    /\ last' = [op |-> "PCA9557::setBit", arg |-> io_bit, ret |-> 0,
                res |-> "ok",
                calls |-> <<"read CURRENT_VALUES_REGISTER", "write OUTPUT_PORT_REGISTER">>,
                warn |-> FALSE, on |-> on]
    /\ UNCHANGED <<config_register, pin_level, config_calls, pwmRest, halted, dispVars>>

\* PCA9557::getBit(io_bit): the bit of CURRENT_VALUES_REGISTER.
getBit(io_bit) ==
    /\ ~halted
    /\ last' = [op |-> "PCA9557::getBit", arg |-> io_bit,
                ret |-> BitOf(InputPortRegister, io_bit),
                res |-> "ok", calls |-> <<"read CURRENT_VALUES_REGISTER">>,
                warn |-> FALSE]
    /\ UNCHANGED <<expVars, pwmRest, halted, dispVars>>

\* The circuit changes the level it puts on pin b.
PinLevelChange(b) ==
    /\ ~halted
    /\ pin_level' = IF BitOf(pin_level, b) = 1 THEN BitClear(pin_level, b)
                    ELSE BitSet(pin_level, b)
    /\ UNCHANGED <<config_register, output_port_register, config_calls,
                   pwmVars, halted, dispVars>>

\* The chip after power-on and PCA9557::PCA9557: every pin an input
\* (configuration 0xFF), output port 0x00.
ExpanderInit ==
    /\ config_register = 2 ^ PCA9557_BITS - 1
    /\ output_port_register = 0
    /\ pin_level = 0
    /\ config_calls = [b \in RegisterBits |-> "none"]

\* The application uses the expander from one task while the circuit drives
\* the input pins.
ExpanderNext ==
    \/ \E b \in ExpanderBits : configAsOutput(b)
    \/ \E b \in ExpanderBits : configAsInput(b)
    \/ \E b \in ExpanderBits, on \in BOOLEAN : setBit(b, on)
    \/ \E b \in ExpanderBits : getBit(b)
    \/ \E b \in ExpanderBits : PinLevelChange(b)

(***************************************************************************)
(* The GPIO interrupt dispatcher: initializeIfNeeded, gpioIsrTaskFunction, *)
(* gpioIsrHandler and the GpioInterrupteHandler constructor.               *)
(***************************************************************************)
\* A value-initialized QueueData, as std::map::operator[] inserts it.
DefaultQueueData == [gpio_num |-> 0, individual_isr_for_bit |-> NULL]

\* QueueData{.gpio_num = bit_num, .individual_isr_for_bit = individual_isr_for_bit}
QueueData(bit_num, individual_isr_for_bit) ==
    [gpio_num |-> bit_num, individual_isr_for_bit |-> individual_isr_for_bit]

\* A gpio_isr_task that has not been created; `seq` is the position, among the
\* accepted events, of the event in `data` (history).
NoWorker == [pc |-> "none", data |-> DefaultQueueData, seq |-> 0]

\* The tasks that are inside a structural insertion into gpio_bit_data_map_
\* (the new node is being linked into the tree).
Inserting == {t \in Tasks : task[t].pc = "map_inserting"}

\* What gpio_install_isr_service() can return: it fails once the service is
\* installed, and it can fail for want of memory or of a free interrupt.
InstallResults == IF isr_service THEN {"ESP_ERR_INVALID_STATE"}
                  ELSE {"ESP_OK", "ESP_ERR_NO_MEM"}

\* The constructor is entered by task t: initializeIfNeeded() reads
\* `initialized` and returns at once when it is set.
BindBegin(t, gpio_num, individual_isr_for_bit) ==
    /\ ~halted
    /\ task[t].pc = "idle"
    /\ hist.binds < MaxBinds
    /\ task' = [task EXCEPT ![t] =
                   [pc |-> IF initialized THEN "gpio_config" ELSE "xTaskCreate",
                    gpio_num |-> gpio_num,
                    individual_isr_for_bit |-> individual_isr_for_bit]]
    /\ hist' = [hist EXCEPT !.binds = @ + 1]
    /\ UNCHANGED <<initialized, gpio_event_queue_, gpio_bit_data_map_, worker,
                   isr_service, isr_handlers, gpio_configured, halted>>
    /\ UNCHANGED <<pwmVars, expVars>>

\* initializeIfNeeded(): xTaskCreate(gpioIsrTaskFunction, "gpio_isr_task", ...).
TaskCreate(t) ==
    /\ ~halted
    /\ task[t].pc = "xTaskCreate"
    /\ LET w == Min({x \in Workers : worker[x].pc = "none"})
       IN worker' = [worker EXCEPT ![w].pc = "gpio_install_isr_service"]
    /\ task' = [task EXCEPT ![t].pc = "set_initialized"]
    /\ UNCHANGED <<initialized, gpio_event_queue_, gpio_bit_data_map_,
                   isr_service, isr_handlers, gpio_configured, hist, halted>>
    /\ UNCHANGED <<pwmVars, expVars>>

\* initializeIfNeeded(): initialized = true.
SetInitialized(t) ==
    /\ ~halted
    /\ task[t].pc = "set_initialized"
    /\ initialized' = TRUE
    /\ task' = [task EXCEPT ![t].pc = "gpio_config"]
    /\ UNCHANGED <<gpio_event_queue_, gpio_bit_data_map_, worker,
                   isr_service, isr_handlers, gpio_configured, hist, halted>>
    /\ UNCHANGED <<pwmVars, expVars>>

\* gpio_config(&io_conf): the pin is configured, its interrupt type set.
GpioConfig(t) ==
    /\ ~halted
    /\ task[t].pc = "gpio_config"
    /\ gpio_configured' = gpio_configured \cup {task[t].gpio_num}
    /\ task' = [task EXCEPT ![t].pc = "map_insert"]
    /\ UNCHANGED <<initialized, gpio_event_queue_, gpio_bit_data_map_, worker,
                   isr_service, isr_handlers, hist, halted>>
    /\ UNCHANGED <<pwmVars, expVars>>

\* gpio_bit_data_map_[bit_num] = QueueData{...}: when the key exists the value
\* is overwritten; when it does not, operator[] starts linking a new node.
MapInsert(t) ==
    /\ ~halted
    /\ task[t].pc = "map_insert"
    /\ IF task[t].gpio_num \in DOMAIN gpio_bit_data_map_
       THEN /\ gpio_bit_data_map_' =
                   MapPut(gpio_bit_data_map_, task[t].gpio_num,
                          QueueData(task[t].gpio_num, task[t].individual_isr_for_bit))
            /\ task' = [task EXCEPT ![t].pc = "gpio_isr_handler_add"]
       ELSE /\ task' = [task EXCEPT ![t].pc = "map_inserting"]
            /\ UNCHANGED gpio_bit_data_map_
    /\ UNCHANGED <<initialized, gpio_event_queue_, worker,
                   isr_service, isr_handlers, gpio_configured, hist, halted>>
    /\ UNCHANGED <<pwmVars, expVars>>

\* The outcomes of the structural insertion of task t: alone in the map it
\* takes effect; when another task links a node at the same time (a data
\* race on the tree) the node of t is in the tree afterwards, or it is not.
InsertOutcomes(t) == IF Inserting \ {t} = {} THEN {"linked"} ELSE {"linked", "lost"}

\* The new node is linked and the value assigned.
MapInsertEnd(t, outcome) ==
    /\ ~halted
    /\ task[t].pc = "map_inserting"
    /\ gpio_bit_data_map_' =
           IF outcome = "linked"
           THEN MapPut(gpio_bit_data_map_, task[t].gpio_num,
                       QueueData(task[t].gpio_num, task[t].individual_isr_for_bit))
           ELSE gpio_bit_data_map_
    /\ task' = [task EXCEPT ![t].pc = "gpio_isr_handler_add"]
    /\ UNCHANGED <<initialized, gpio_event_queue_, worker,
                   isr_service, isr_handlers, gpio_configured, hist, halted>>
    /\ UNCHANGED <<pwmVars, expVars>>

\* gpio_isr_handler_add(bit_num, gpioIsrHandler, (void *)bit_num): hooks the
\* handler when the ISR service is installed, fails with
\* ESP_ERR_INVALID_STATE when it is not; the result is not looked at, and the
\* constructor returns.
HandlerAdd(t) ==
    /\ ~halted
    /\ task[t].pc = "gpio_isr_handler_add"
    /\ isr_handlers' = IF isr_service THEN isr_handlers \cup {task[t].gpio_num}
                       ELSE isr_handlers
    /\ hist' = [hist EXCEPT !.bound = MapPut(@, task[t].gpio_num,
                                             task[t].individual_isr_for_bit),
                            !.rebound = IF task[t].gpio_num \in DOMAIN hist.bound
                                        THEN @ \cup {task[t].gpio_num} ELSE @]
    /\ task' = [task EXCEPT ![t] = IdleTask]
    /\ UNCHANGED <<initialized, gpio_event_queue_, gpio_bit_data_map_, worker,
                   isr_service, gpio_configured, halted>>
    /\ UNCHANGED <<pwmVars, expVars>>

\* gpioIsrTaskFunction: gpio_install_isr_service(ESP_INTR_FLAG_LOWMED); an
\* error is logged and the task goes on to its loop.
InstallIsrService(w, result) ==
    /\ ~halted
    /\ worker[w].pc = "gpio_install_isr_service"
    /\ isr_service' = (isr_service \/ result = "ESP_OK")
    /\ hist' = [hist EXCEPT !.error_logged = (@ \/ result # "ESP_OK")]
    /\ worker' = [worker EXCEPT ![w].pc = "xQueueReceive"]
    /\ UNCHANGED <<initialized, gpio_event_queue_, gpio_bit_data_map_, task,
                   isr_handlers, gpio_configured, halted>>
    /\ UNCHANGED <<pwmVars, expVars>>

\* A gpio_isr_task that looks the callback of the pin up in
\* gpio_bit_data_map_ when it receives the event.
QueueReceiveLookup(w) ==
    /\ ~halted
    /\ worker[w].pc = "xQueueReceive"
    /\ gpio_event_queue_ # <<>>
    /\ LET gpio_num == Head(gpio_event_queue_).data.gpio_num
       IN worker' = [worker EXCEPT ![w] =
                        [pc |-> "got",
                         data |-> IF gpio_num \in DOMAIN gpio_bit_data_map_
                                  THEN gpio_bit_data_map_[gpio_num]
                                  ELSE Head(gpio_event_queue_).data,
                         seq |-> Head(gpio_event_queue_).seq]]
    /\ gpio_event_queue_' = Tail(gpio_event_queue_)
    /\ UNCHANGED <<initialized, gpio_bit_data_map_, task,
                   isr_service, isr_handlers, gpio_configured, hist, halted>>
    /\ UNCHANGED <<pwmVars, expVars>>

\* gpioIsrTaskFunction: xQueueReceive(gpio_event_queue_, &data, portMAX_DELAY)
\* returns with the oldest event (it blocks while the queue is empty).
QueueReceive(w) ==
    /\ ~halted
    /\ worker[w].pc = "xQueueReceive"
    /\ gpio_event_queue_ # <<>>
    /\ worker' = [worker EXCEPT ![w] =
                     [pc |-> "got", data |-> Head(gpio_event_queue_).data,
                      seq |-> Head(gpio_event_queue_).seq]]
    /\ gpio_event_queue_' = Tail(gpio_event_queue_)
    /\ UNCHANGED <<initialized, gpio_bit_data_map_, task,
                   isr_service, isr_handlers, gpio_configured, hist, halted>>
    /\ UNCHANGED <<pwmVars, expVars>>

\* gpioIsrTaskFunction: (*isr_func)(io_num).  A call through a null function
\* pointer stops the program.
Invoke(w) ==
    /\ ~halted
    /\ worker[w].pc = "got"
    /\ IF worker[w].data.individual_isr_for_bit = NULL
       THEN /\ halted' = TRUE
            /\ UNCHANGED <<worker, hist>>
       ELSE /\ worker' = [worker EXCEPT ![w].pc = "in_callback"]
            /\ hist' = [hist EXCEPT !.invoked = @ + 1,
                                    !.invoked_seq = worker[w].seq]
            /\ UNCHANGED halted
    /\ UNCHANGED <<initialized, gpio_event_queue_, gpio_bit_data_map_, task,
                   isr_service, isr_handlers, gpio_configured>>
    /\ UNCHANGED <<pwmVars, expVars>>

\* A gpio_isr_task that ends after one callback.
CallbackReturnExit(w) ==
    /\ ~halted
    /\ worker[w].pc = "in_callback"
    /\ worker' = [worker EXCEPT ![w] = NoWorker]
    /\ UNCHANGED <<initialized, gpio_event_queue_, gpio_bit_data_map_, task,
                   isr_service, isr_handlers, gpio_configured, hist, halted>>
    /\ UNCHANGED <<pwmVars, expVars>>

\* The user callback returns; the task loops to xQueueReceive.
CallbackReturn(w) ==
    /\ ~halted
    /\ worker[w].pc = "in_callback"
    /\ worker' = [worker EXCEPT ![w] = [NoWorker EXCEPT !.pc = "xQueueReceive"]]
    /\ UNCHANGED <<initialized, gpio_event_queue_, gpio_bit_data_map_, task,
                   isr_service, isr_handlers, gpio_configured, hist, halted>>
    /\ UNCHANGED <<pwmVars, expVars>>

\* The outcomes of the lookup gpio_bit_data_map_[gpio_num] in the ISR: the
\* key is found when it is in the map, except that while a task is linking a
\* node into the tree (a data race) the search can also miss it.
LookupOutcomes(gpio_num) ==
    IF gpio_num \notin DOMAIN gpio_bit_data_map_ THEN {"miss"}
    ELSE IF Inserting = {} THEN {"hit"}
    ELSE {"hit", "miss"}

\* gpioIsrHandler(arg): the copy of the map's entry (operator[] inserts a
\* value-initialized entry when the search misses) is sent with
\* xQueueSendFromISR, which does not wait and whose result is dropped.
gpioIsrHandler(gpio_num, lookup) ==
    LET queue_data == IF lookup = "hit" THEN gpio_bit_data_map_[gpio_num]
                      ELSE DefaultQueueData
        sent == Len(gpio_event_queue_) < QUEUE_LEN
    IN
    /\ gpio_bit_data_map_' = IF lookup = "hit" THEN gpio_bit_data_map_
                             ELSE MapPut(gpio_bit_data_map_, gpio_num, DefaultQueueData)
    /\ gpio_event_queue_' =
           IF sent
           THEN Append(gpio_event_queue_,
                       [data |-> queue_data, seq |-> hist.accepted + 1])
           ELSE gpio_event_queue_
    /\ hist' = [hist EXCEPT !.fired = @ + 1,
                            !.accepted = IF sent THEN @ + 1 ELSE @,
                            !.irq = [gpio_num |-> gpio_num,
                                     outcome |-> IF sent THEN "sent" ELSE "full"]]

\* The interrupt of a configured pin fires: the GPIO ISR service runs the
\* handler hooked to the pin, if there is one.
Interrupt(gpio_num, lookup, max) ==
    /\ ~halted
    /\ gpio_num \in gpio_configured
    /\ hist.fired < max
    /\ IF gpio_num \in isr_handlers
       THEN gpioIsrHandler(gpio_num, lookup)
       ELSE /\ hist' = [hist EXCEPT !.irq = [gpio_num |-> gpio_num,
                                             outcome |-> "no handler"]]
            /\ UNCHANGED <<gpio_bit_data_map_, gpio_event_queue_>>
    /\ UNCHANGED <<initialized, worker, task,
                   isr_service, isr_handlers, gpio_configured, halted>>
    /\ UNCHANGED <<pwmVars, expVars>>

\* The dispatcher before the first constructor call: the static initializers
\* have run (the queue exists and is empty, the map is empty).
DispInit ==
    /\ initialized = FALSE
    /\ gpio_event_queue_ = <<>>
    /\ gpio_bit_data_map_ = EmptyMap
    /\ worker = [w \in Workers |-> NoWorker]
    /\ task = [t \in Tasks |-> IdleTask]
    /\ isr_service = FALSE
    /\ isr_handlers = {}
    /\ gpio_configured = {}
    /\ hist = [binds |-> 0, fired |-> 0, accepted |-> 0, invoked |-> 0,
               invoked_seq |-> 0, error_logged |-> FALSE, bound |-> EmptyMap,
               rebound |-> {},
               irq |-> [gpio_num |-> 0, outcome |-> "none"]]

(***************************************************************************)
(* The pool's initial state: the static maps are empty, nothing is         *)
(* configured.                                                             *)
(***************************************************************************)
PoolInit ==
    /\ timers_in_use = EmptyMap
    /\ heap = EmptyMap
    /\ held = EmptyMap
    /\ channels_used = {}
    /\ outputs = EmptyMap
    /\ hwTimer = [n \in TimerNums |-> UnconfiguredTimer]
    /\ hwChannel = [c \in ChannelNums |-> UnconfiguredChannel]
    /\ gpioReserved = {}
    /\ halted = FALSE
    /\ last = NoOp

\* The outcomes of the undefined behaviour a constructor or the destructor
\* of an OutputPWM can meet in the current state ("defined": none).
CtorUB == IF AvailableTimerNum = LEDC_TIMER_MAX
          THEN {<<"panic", 0>>} \cup ({"garbage"} \X GarbageTimerSel)
          ELSE {<<"defined", 0>>}

DtorUB(id) == IF outputs[id].timer_ptr_ = NULL THEN NullDeref ELSE {"defined"}

Init == PoolInit /\ DispInit /\ ExpanderInit

\* The application uses the timer pool alone.
PoolNext ==
    \/ \E f \in Freqs : getAvailableTimer(f)
    \/ \E n \in TimerArgs, f \in Freqs : getTimer(n, f)
    \/ \E o \in ObjIds : doneWithTimer(o)

SpecPool == Init /\ [][PoolNext]_vars

\* The application creates and destroys OutputPWM objects, and takes timers
\* of its own besides.
PWMNext ==
    \/ (AvailableTimerNum # LEDC_TIMER_MAX => HeldTotal < MaxHeldPWM)
       /\ getAvailableTimer(kDefaultFrequency)
    \/ \E n \in {0, LEDC_TIMER_MAX} :
          HeldTotal < MaxHeldPWM /\ getTimer(n, kDefaultFrequency)
    \/ \E o \in ObjIds : doneWithTimer(o)
    \/ \E g \in PwmPins, u \in CtorUB :
          /\ CtorCompletes(get_available_channel, u[1], u[2])
                => Cardinality(DOMAIN outputs) < MaxOutputs
          /\ OutputPWM1(g, u[1], u[2])
    \/ \E g \in PwmPins, c \in ChannelArgs, u \in CtorUB :
          /\ CtorCompletes(c, u[1], u[2]) => Cardinality(DOMAIN outputs) < MaxOutputs
          /\ OutputPWM2(g, c, u[1], u[2])
    \/ \E id \in DOMAIN outputs : \E ub \in DtorUB(id) : OutputPWMDtor(id, ub)

SpecPWM == Init /\ [][PWMNext]_vars

\* The application creates OutputPWM objects with the channel the class picks
\* and destroys them, asks which channel is available, and takes and
\* releases one timer of its own at a time.
ChanNext ==
    \/ \E g \in PwmPins, u \in CtorUB : OutputPWM1(g, u[1], u[2])
    \/ \E id \in DOMAIN outputs : \E ub \in DtorUB(id) : OutputPWMDtor(id, ub)
    \/ GetAvailableChannel
    \/ HeldTotal = 0 /\ getTimer(LEDC_TIMER_MAX, kDefaultFrequency)
    \/ \E o \in ObjIds : doneWithTimer(o)

SpecChan == Init /\ [][ChanNext]_vars

SpecExpander == Init /\ [][ExpanderNext]_vars

\* The timers that exist, with those that the calls in progress create.
TimersRace ==
    Cardinality(DOMAIN heap)
       + Cardinality({u \in Tasks : task[u].pc \in {"gat_found", "ctor_channel"}})

\* Two application tasks use the pools with nothing to serialize them.
RaceNext ==
    \/ \E t \in Tasks : TimersRace < MaxTimersRace
                         /\ GatFind(t, kDefaultFrequency)
    \/ \E t \in Tasks : GatCreate(t)
    \/ \E t \in Tasks, n \in TimerNums :
          /\ HeldTotal + Cardinality({u \in Tasks : task[u].pc = "gt_read"}) < MaxHeldRace
          /\ n \in DOMAIN timers_in_use
                => heap[timers_in_use[n]].num_references_ < MaxHeldRace
          /\ GtRead(t, n)
    \/ \E t \in Tasks, uaf \in UseAfterFree : GtWrite(t, uaf)
    \/ \E t \in Tasks, o \in ObjIds : DwRead(t, o)
    \/ \E t \in Tasks, uaf \in UseAfterFree : DwWrite(t, uaf)
    \/ \E t \in Tasks, g \in PwmPins :
          /\ TimersRace < MaxTimersRace
          /\ Cardinality(DOMAIN outputs)
                + Cardinality({u \in Tasks : task[u].pc = "ctor_channel"}) < MaxOutputsRace
          /\ ChanFind(t, g)
    \/ \E t \in Tasks, u \in CtorUB : ChanCtor(t, u[1], u[2])
    \/ \E id \in DOMAIN outputs :
          outputs[id].timer_ptr_ \in DOMAIN heap \cup {NULL}
          /\ \E ub \in DtorUB(id) : OutputPWMDtor(id, ub)
    \/ \E id \in DOMAIN outputs, uaf \in UseAfterFree : OutputPWMDtorDangling(id, uaf)

SpecRace == Init /\ [][RaceNext]_vars

\* The duties of the PWM outputs: outputs created with OutputPWM(gpio_num),
\* their duty set, and destroyed.
DutyNext ==
    \/ \E g \in PwmPins, u \in CtorUB :
          /\ CtorCompletes(get_available_channel, u[1], u[2])
                => Cardinality(DOMAIN outputs) < MaxOutputs
          /\ OutputPWM1(g, u[1], u[2])
    \/ \E id \in DOMAIN outputs : \E ub \in DtorUB(id) : OutputPWMDtor(id, ub)
    \/ \E id \in DOMAIN outputs, duty \in DutyArgs : setDutyValue(id, duty)
    \/ \E id \in DOMAIN outputs, q \in Percents : setDuty(id, q)

SpecDuty == Init /\ [][DutyNext]_vars

\* The frequencies of the PWM outputs: the application takes timers and
\* creates outputs, sets duties and frequencies, and gives them back.
FreqNext ==
    \/ (AvailableTimerNum # LEDC_TIMER_MAX => HeldTotal < MaxHeldFreq)
       /\ getAvailableTimer(kDefaultFrequency)
    \/ \E o \in ObjIds : doneWithTimer(o)
    \/ \E g \in PwmPins, u \in CtorUB :
          /\ CtorCompletes(get_available_channel, u[1], u[2])
                => Cardinality(DOMAIN outputs) < MaxOutputsFreq
          /\ OutputPWM1(g, u[1], u[2])
    \/ \E id \in DOMAIN outputs : \E ub \in DtorUB(id) : OutputPWMDtor(id, ub)
    \/ \E id \in DOMAIN outputs, duty \in {0, 5000} : setDutyValue(id, duty)
    \/ \E o \in ObjIds, f \in SetFreqs : PWMTimer_setFrequency(o, f)
    \/ \E id \in DOMAIN outputs, f \in SetFreqs :
          \E u \in SetFrequencyUB(id), duty \in DutyReads(id) :
             OutputPWM_setFrequency(id, f, u[1], u[2], duty)

SpecFreq == Init /\ [][FreqNext]_vars

\* The steps of the dispatcher that do not depend on who calls: the
\* constructor once entered, and the gpio_isr_task tasks.
DispSteps ==
    \/ \E t \in Tasks : TaskCreate(t)
    \/ \E t \in Tasks : SetInitialized(t)
    \/ \E t \in Tasks : GpioConfig(t)
    \/ \E t \in Tasks : MapInsert(t)
    \/ \E t \in Tasks : \E o \in InsertOutcomes(t) : MapInsertEnd(t, o)
    \/ \E t \in Tasks : HandlerAdd(t)
    \/ \E w \in Workers : \E r \in InstallResults : InstallIsrService(w, r)
    \/ \E w \in Workers : QueueReceive(w)
    \/ \E w \in Workers : Invoke(w)
    \/ \E w \in Workers : CallbackReturn(w)

\* Several tasks construct GpioInterrupteHandler objects for several pins
\* while interrupts fire.
DispNext ==
    \/ \E t \in Tasks, p \in IrqPins, cb \in Callbacks : BindBegin(t, p, cb)
    \/ DispSteps
    \/ \E p \in IrqPins : \E l \in LookupOutcomes(p) : Interrupt(p, l, MaxIrq)

SpecDisp == Init /\ [][DispNext]_vars

\* One task constructs GpioInterrupteHandler objects, with one callback,
\* while the interrupt of the first pin fires faster than the queue drains.
FloodNext ==
    \/ \E p \in IrqPins : BindBegin(1, p, 1)
    \/ DispSteps
    \/ \E l \in LookupOutcomes(1) : Interrupt(1, l, MaxFlood)

SpecFlood == Init /\ [][FloodNext]_vars

\* One task constructs GpioInterrupteHandler objects one after the other,
\* for either pin and with either callback, while interrupts fire.
RebindNext ==
    \/ \E p \in IrqPins, cb \in Callbacks : BindBegin(1, p, cb)
    \/ DispSteps
    \/ \E p \in IrqPins : \E l \in LookupOutcomes(p) : Interrupt(p, l, MaxIrq)

SpecRebind == Init /\ [][RebindNext]_vars

\* The steps of the constructor that task t has entered.
CtorSteps(t) ==
    \/ TaskCreate(t)
    \/ SetInitialized(t)
    \/ GpioConfig(t)
    \/ MapInsert(t)
    \/ \E o \in InsertOutcomes(t) : MapInsertEnd(t, o)
    \/ HandlerAdd(t)

\* The same with the scheduling of FreeRTOS: a gpio_isr_task that is ready
\* (created, or its queue not empty, or its callback returning) gets to run,
\* and so does the task that is inside the constructor.
SpecRebindFair ==
    /\ SpecRebind
    /\ \A w \in Workers :
          /\ WF_vars(\E r \in InstallResults : InstallIsrService(w, r))
          /\ WF_vars(QueueReceive(w))
          /\ WF_vars(Invoke(w))
          /\ WF_vars(CallbackReturn(w))
    /\ \A t \in Tasks : WF_vars(CtorSteps(t))

(***************************************************************************)
(* The claims about the timer pool and OutputPWM.                          *)
(***************************************************************************)
LiveTimers == DOMAIN heap

LiveOutputs == DOMAIN outputs

CtorOps == {"OutputPWM(gpio_num)", "OutputPWM(gpio_num,channel)"}

\* C1: getTimer(id) called twice with no release in between returns the same
\* PWMTimer both times, the second call raising its reference count by one
\* (to 2 when the first call created it); a release after the count has
\* reached 2 brings it to 1 and leaves the timer live and registered.
C1_SameTimerTwice ==
    [][ /\ (last.op = "getTimer" /\ last'.op = "getTimer" /\ last'.arg = last.arg)
           => /\ last'.ret = last.ret
              /\ last.ret \in DOMAIN heap'
              /\ heap'[last.ret].num_references_ = heap[last.ret].num_references_ + 1
        /\ (/\ last.op = "getTimer"
            /\ heap[last.ret].num_references_ = 2
            /\ last'.op = "doneWithTimer" /\ last'.arg = last.ret)
           => /\ last.ret \in DOMAIN heap'
              /\ heap'[last.ret].num_references_ = 1
              /\ heap[last.ret].timer_num_ \in DOMAIN timers_in_use'
              /\ timers_in_use'[heap[last.ret].timer_num_] = last.ret
      ]_vars

\* C2: no two live PWMTimer objects have the same timer number (the mapping
\* from timer number to live PWMTimer is injective), so at most
\* LEDC_TIMER_MAX timers are live at the same time.
C2_TimerMapInjective ==
    /\ \A a, b \in LiveTimers : heap[a].timer_num_ = heap[b].timer_num_ => a = b
    /\ \A m, n \in DOMAIN timers_in_use : timers_in_use[m] = timers_in_use[n] => m = n
    /\ Cardinality(LiveTimers) <= LEDC_TIMER_MAX

\* C3: no two live OutputPWM objects hold the same channel, and every live
\* OutputPWM holds a channel in 0 .. LEDC_CHANNEL_MAX - 1.
C3_ChannelsExclusive ==
    /\ \A a, b \in LiveOutputs : outputs[a].channel_ = outputs[b].channel_ => a = b
    /\ \A a \in LiveOutputs : outputs[a].channel_ \in ChannelNums

\* C4: an OutputPWM construction begun while no timer number is free, or
\* (without a channel argument) while no channel is free, fails with
\* ResourceExhausted and leaves the used channels, the live timers with their
\* reference counts and the committed channel configuration as they were.
C4_CreateAllOrNothing ==
    [][ (/\ last'.op \in CtorOps
         /\ \/ FreeTimerNums = {}
            \/ last'.op = "OutputPWM(gpio_num)" /\ ChannelNums \ channels_used = {})
        => /\ last'.res = "ResourceExhausted"
           /\ UNCHANGED <<channels_used, timers_in_use, heap, hwTimer, hwChannel, outputs>>
      ]_vars

\* The timer numbers that have a live PWMTimer.
LiveTimerNums == {heap[o].timer_num_ : o \in LiveTimers}

\* This step is a doneWithTimer() that deleted the timer.
LastRelease == last'.op = "doneWithTimer" /\ last'.arg \notin DOMAIN heap'

\* C11: after the release of the last reference to a timer its number has no
\* live timer any more and is available again: it is not in timers_in_use,
\* so that getAvailableTimer can return it, and a getTimer of that number
\* creates a new PWMTimer with reference count 1.
C11_AvailableAfterLastRelease ==
    [][ \A n \in TimerNums :
          (LastRelease /\ heap[last'.arg].timer_num_ = n)
          => /\ n \notin LiveTimerNums'
             /\ n \in FreeTimerNums'
             /\ LET r == GetTimerResult(n, kDefaultFrequency)'
                IN /\ r.ret \notin LiveTimers'
                   /\ r.heap[r.ret].num_references_ = 1
      ]_vars

\* C12: doneWithTimer() decrements the reference count by exactly one; the
\* timer is torn down if and only if the count reaches 0, and then in the
\* order: entry erased from timers_in_use, timer paused, timer deconfigured;
\* a release that leaves the count above 0 makes no hardware call and leaves
\* timers_in_use and the hardware as they are.
C12_ReleaseTeardown ==
    [][ \A o \in ObjIds :
          (last'.op = "doneWithTimer" /\ last'.arg = o)
          => IF heap[o].num_references_ = 1
             THEN /\ o \notin LiveTimers'
                  /\ heap[o].timer_num_ \notin DOMAIN timers_in_use'
                  /\ hwTimer'[heap[o].timer_num_] = UnconfiguredTimer
                  /\ last'.calls = <<"timers_in_use.erase", "ledc_timer_pause",
                                     "ledc_timer_config(deconfigure)">>
             ELSE /\ o \in LiveTimers'
                  /\ heap'[o].num_references_ = heap[o].num_references_ - 1
                  /\ last'.calls = <<>>
                  /\ UNCHANGED <<timers_in_use, hwTimer>>
      ]_vars

\* A release has torn a registered timer down while another timer is shared.
C12_Witness ==
    /\ last.op = "doneWithTimer"
    /\ Len(last.calls) = 3
    /\ \E o \in LiveTimers : heap[o].num_references_ >= 2

\* C13: whenever some timer number has no live timer, getAvailableTimer
\* returns a new timer of the lowest such number, with reference count 1,
\* registered in timers_in_use, its hardware timer configured with the
\* frequency asked for.
C13_LowestFreeTimer ==
    [][ (last'.op = "getAvailableTimer" /\ TimerNums \ LiveTimerNums # {})
        => /\ last'.ret \in LiveTimers' \ LiveTimers
           /\ LET t == heap'[last'.ret]
              IN /\ t.timer_num_ = Min(TimerNums \ LiveTimerNums)
                 /\ t.num_references_ = 1
                 /\ t.timer_num_ \in DOMAIN timers_in_use'
                 /\ timers_in_use'[t.timer_num_] = last'.ret
                 /\ hwTimer'[t.timer_num_] = ConfiguredTimer(last'.arg)
      ]_vars

\* C14: when every timer number has a live timer, getAvailableTimer returns
\* nullptr, makes no hardware call, creates and reconfigures no timer and
\* changes no reference count; it does not hand out a live timer.
C14_ExhaustedReturnsNull ==
    [][ (last'.op = "getAvailableTimer" /\ LiveTimerNums = TimerNums)
        => /\ last'.ret = NULL
           /\ last'.calls = <<>>
           /\ UNCHANGED <<heap, timers_in_use, hwTimer>>
      ]_vars

\* C15: getTimer(timer_num, freq_hz) for a number that has a live timer
\* leaves the frequency of every live timer and the configuration of the
\* hardware timers unchanged, whatever freq_hz is.
C15_GetTimerKeepsFrequency ==
    [][ (last'.op = "getTimer" /\ last'.arg \in LiveTimerNums)
        => /\ UNCHANGED hwTimer
           /\ \A o \in LiveTimers : /\ o \in LiveTimers'
                                    /\ heap'[o].freq_hz_ = heap[o].freq_hz_
      ]_vars

\* C16: a getTimer for a number outside 0 .. LEDC_TIMER_MAX - 1 does not
\* fail: it warns, the timer returned is live and has the clamped number,
\* and the request is treated like one for the clamped number: when a timer
\* of that number is registered, that timer is returned, its count raised
\* by one.
C16_ClampedRequest ==
    [][ (last'.op = "getTimer" /\ last'.arg \notin TimerNums)
        => LET n == Clamp(last'.arg, 0, LEDC_TIMER_MAX - 1)
           IN /\ last'.res = "ok"
              /\ last'.warn
              /\ last'.ret \in LiveTimers'
              /\ heap'[last'.ret].timer_num_ = n
              /\ n \in DOMAIN timers_in_use
                 => /\ last'.ret = timers_in_use[n]
                    /\ heap'[last'.ret].num_references_
                          = heap[last'.ret].num_references_ + 1
      ]_vars

\* C17: get_available_channel never returns a channel that is in
\* channels_used, and neither does the constructor that uses it take one;
\* when all LEDC_CHANNEL_MAX channels are in use it returns LEDC_CHANNEL_MAX
\* (no channel), and a construction with that value does not end with a live
\* OutputPWM: no live OutputPWM ever holds LEDC_CHANNEL_MAX.
C17_ChannelNeverReused ==
    [][ /\ last'.op = "get_available_channel"
           => /\ last'.ret \notin channels_used
              /\ (ChannelNums \subseteq channels_used) <=> (last'.ret = LEDC_CHANNEL_MAX)
        /\ (last'.op = "OutputPWM(gpio_num)" /\ last'.res = "ok")
           => outputs'[last'.ret].channel_ \in ChannelNums \ channels_used
        /\ (last'.op = "OutputPWM(gpio_num)" /\ ChannelNums \subseteq channels_used)
           => /\ last'.res # "ok"
              /\ halted'
              /\ outputs' = outputs
        /\ \A id \in LiveOutputs' : outputs'[id].channel_ # LEDC_CHANNEL_MAX
      ]_vars

\* With all channels in use an OutputPWM(gpio_num) was attempted.
C17_Witness ==
    /\ last.op = "OutputPWM(gpio_num)"
    /\ last.res = "abort"
    /\ ChannelNums \subseteq channels_used
    /\ Cardinality(LiveOutputs) = LEDC_CHANNEL_MAX

\* c is the lowest-numbered channel that channels_used does not contain.
LowestUnused(c) ==
    /\ c \in ChannelNums \ channels_used
    /\ \A d \in ChannelNums \ channels_used : c <= d

\* C18 as stated: get_available_channel returns the lowest-numbered unused
\* channel and marks it used as part of the same call, so that a second call
\* cannot return it again.
C18_AllocateMarks ==
    [][ (last'.op = "get_available_channel" /\ last'.ret # LEDC_CHANNEL_MAX)
           => /\ LowestUnused(last'.ret)
              /\ last'.ret \in channels_used' ]_vars

\* C18, amended: get_available_channel returns the lowest-numbered unused
\* channel and leaves channels_used as it was; the channel is marked used by
\* the OutputPWM(gpio_num) construction that completes with it, so that the
\* construction holds the lowest-numbered unused channel, that channel is
\* used afterwards, and the next OutputPWM(gpio_num) construction, with no
\* destruction in between, holds a different channel.
C18_QueryThenCtorMarks ==
    [][ /\ (last'.op = "get_available_channel" /\ last'.ret # LEDC_CHANNEL_MAX)
           => /\ LowestUnused(last'.ret)
              /\ channels_used' = channels_used
        /\ (last'.op = "OutputPWM(gpio_num)" /\ last'.res = "ok")
           => /\ LowestUnused(outputs'[last'.ret].channel_)
              /\ outputs'[last'.ret].channel_ \in channels_used'
              /\ (last.op = "OutputPWM(gpio_num)" /\ last.res = "ok")
                 => outputs'[last'.ret].channel_ # outputs[last.ret].channel_ ]_vars

\* Two OutputPWM(gpio_num) constructions have marked channels 0 and 1, and
\* a get_available_channel() call has returned channel 2 without marking it.
C18_Witness ==
    /\ last.op = "get_available_channel"
    /\ last.ret = 2
    /\ channels_used = {0, 1}
    /\ {outputs[id].channel_ : id \in LiveOutputs} = {0, 1}

\* C19: creating an OutputPWM and then destroying it restores the pools (the
\* used channels and the live timers with their reference counts are what
\* they were before the create), the destroy revokes the pin reservation,
\* and it neither frees the channel nor tears down the timer of any other
\* live OutputPWM.
C19_CreateDestroyRestores ==
    [][ (last'.op = "~OutputPWM" /\ last'.res = "ok")
           => /\ outputs[last'.arg].gpio_num_ \notin gpioReserved'
              /\ \A other \in LiveOutputs \ {last'.arg} :
                    /\ outputs[other].channel_ \in channels_used
                          => outputs[other].channel_ \in channels_used'
                    /\ outputs[other].timer_ptr_ \in LiveTimers
                          => /\ outputs[other].timer_ptr_ \in LiveTimers'
                             /\ heap'[outputs[other].timer_ptr_]
                                   = heap[outputs[other].timer_ptr_]
                             /\ hwTimer'[heap[outputs[other].timer_ptr_].timer_num_]
                                   = hwTimer[heap[outputs[other].timer_ptr_].timer_num_]
              /\ (/\ last.op \in {"OutputPWM(gpio_num)", "OutputPWM(gpio_num,channel)"}
                  /\ last.res = "ok"
                  /\ last.ret = last'.arg)
                    => PoolSnapshot' = last.pre ]_vars

\* C20: for every unsigned value v, setDutyValue(v) stores min(v, MAX_DUTY)
\* as the output's duty and commits that same value to the hardware channel
\* with ledc_set_duty and then ledc_update_duty; it warns exactly when
\* v > MAX_DUTY.
C20_SetDutyValueClamps ==
    [][ last'.op = "setDutyValue"
           => /\ outputs'[last'.obj].duty_
                    = (IF last'.arg < MAX_DUTY THEN last'.arg ELSE MAX_DUTY)
              /\ hwChannel'[outputs[last'.obj].channel_].duty
                    = outputs'[last'.obj].duty_
              /\ last'.calls = <<"ledc_set_duty", "ledc_update_duty">>
              /\ last'.warn <=> (last'.arg > MAX_DUTY)
              /\ \A id \in LiveOutputs \ {last'.obj} : outputs'[id] = outputs[id] ]_vars

\* setDutyValue(5000) has stored 4096 and warned.
C20_Witness ==
    /\ last.op = "setDutyValue"
    /\ last.arg = 5000
    /\ last.warn
    /\ outputs[last.obj].duty_ = MAX_DUTY
    /\ hwChannel[outputs[last.obj].channel_].duty = MAX_DUTY

\* C21: in every reachable state the stored duty of every live OutputPWM is
\* in 0 .. MAX_DUTY, whatever a read of it yields; right after construction
\* it is the initial duty 0; and no hardware channel has a duty above
\* MAX_DUTY committed.
C21_DutyInRange ==
    /\ \A id \in LiveOutputs : \A v \in DutyReads(id) : v \in 0 .. MAX_DUTY
    /\ (last.op \in {"OutputPWM(gpio_num)", "OutputPWM(gpio_num,channel)"}
        /\ last.res = "ok")
          => DutyReads(last.ret) = {0}
    /\ \A c \in ChannelNums : hwChannel[c].duty \in 0 .. MAX_DUTY

\* percentage * MAX_DUTY / 100 rounded to the nearest integer, for the
\* percentage q / 4.
DutyOfPercentRounded(q) == (2 * q * MAX_DUTY + 4 * 100) \div (2 * 4 * 100)

\* C22: for every percentage in 0 .. 100, setDuty(percentage) sets the duty
\* to percentage * MAX_DUTY / 100 rounded to the nearest integer (1 percent
\* gives 41, 100 percent gives 4096) and applies it as setDutyValue does.
C22_SetDutyRounds ==
    [][ last'.op = "setDuty"
           => /\ outputs'[last'.obj].duty_ = DutyOfPercentRounded(last'.arg)
              /\ hwChannel'[outputs[last'.obj].channel_].duty
                    = outputs'[last'.obj].duty_
              /\ last'.calls = <<"ledc_set_duty", "ledc_update_duty">>
              /\ ~last'.warn ]_vars

\* C23: every call of OutputPWM::setFrequency reconfigures the timer of the
\* output with the new frequency and then commits the duty that was stored
\* before the call to the hardware channel again; the stored duty is the
\* same before and after the call, for every frequency and every prior duty.
C23_SetFrequencyKeepsDuty ==
    [][ \A id \in LiveOutputs :
          (last'.op = "OutputPWM::setFrequency" /\ last'.obj = id)
             => /\ last'.res = "ok"
                /\ last'.calls = <<"ledc_timer_config", "ledc_set_duty",
                                   "ledc_update_duty">>
                /\ outputs[id].timer_ptr_ \in LiveTimers
                /\ hwTimer'[heap[outputs[id].timer_ptr_].timer_num_]
                      = ConfiguredTimer(last'.arg)
                /\ DutyReads(id)' = DutyReads(id)
                /\ {hwChannel'[outputs[id].channel_].duty} = DutyReads(id) ]_vars

(***************************************************************************)
(* The claims about the interrupt dispatcher.                              *)
(***************************************************************************)
\* The FreeRTOS queues the program creates: the one of the static
\* initializer of gpio_event_queue_.
QueuesCreated == 1

WorkersCreated == Cardinality({w \in Workers : worker[w].pc # "none"})

\* The static state of the dispatcher.
DispatcherStatics == <<initialized, gpio_event_queue_, gpio_bit_data_map_>>

\* This step is a hardware interrupt.
IrqStep == hist'.fired = hist.fired + 1 \/ hist'.irq # hist.irq

\* This step is the call of a user callback.
InvokeStep == hist'.invoked = hist.invoked + 1

InCallback == {w \in Workers : worker[w].pc = "in_callback"}

\* C5: whatever the interleaving of the tasks that enter the constructor for
\* the first time, exactly one event queue and exactly one gpio_isr_task are
\* created over the whole run: never two, and one once `initialized` is set.
C5_OneQueueOneWorker ==
    /\ QueuesCreated = 1
    /\ WorkersCreated <= 1
    /\ initialized => WorkersCreated = 1

\* C6: the ISR never blocks: the queue never holds more than QUEUE_LEN
\* events, and an interrupt that fires while the queue is full is one step
\* that leaves the queue and the dispatch table exactly as they were.
C6_IsrNeverBlocks ==
    [][ /\ Len(gpio_event_queue_') <= QUEUE_LEN
        /\ (IrqStep /\ Len(gpio_event_queue_) = QUEUE_LEN)
           => /\ gpio_event_queue_' = gpio_event_queue_
              /\ gpio_bit_data_map_' = gpio_bit_data_map_
              /\ UNCHANGED <<task, worker>>
      ]_vars

\* C7: every interrupt whose event the full queue does not take increments
\* an observable drop counter (equal to the interrupts fired minus the events
\* accepted): the step of such an interrupt changes the state the program
\* keeps.
C7_DropCounted ==
    [][ (hist'.fired = hist.fired + 1 /\ hist'.accepted = hist.accepted)
        => DispatcherStatics' # DispatcherStatics ]_vars

\* C8: once a constructor for pin p with callback cb has returned (none for p
\* is running, no error was logged), an interrupt of p that finds the queue
\* not full puts exactly one event for (p, cb) into the queue, every call of
\* a callback is the call of the callback bound to the pin it is given, and
\* no more callbacks are called than events were accepted.
C8_OneInterruptOneCallback ==
    [][ /\ \A p \in DOMAIN hist.bound :
             (/\ IrqStep /\ hist'.irq.gpio_num = p
              /\ \A t \in Tasks : task[t].gpio_num # p
              /\ ~hist.error_logged
              /\ Len(gpio_event_queue_) < QUEUE_LEN)
             => /\ Len(gpio_event_queue_') = Len(gpio_event_queue_) + 1
                /\ gpio_event_queue_'[Len(gpio_event_queue_')].data
                      = QueueData(p, hist.bound[p])
        /\ hist'.invoked <= hist'.accepted
      ]_vars

\* C9: callbacks are called in the order in which their events were accepted
\* into the queue: each call is for an event accepted later than the event
\* of the call before.
C9_FifoOrder ==
    [][ InvokeStep => hist'.invoked_seq > hist.invoked_seq ]_vars

\* C10: at most one user callback is executing at any time, and a callback
\* is called by a gpio_isr_task only, never by the step of an interrupt.
C10_OneCallbackAtATime ==
    [][ /\ Cardinality(InCallback') <= 1
        /\ IrqStep => ~InvokeStep ]_vars

\* C24: gpio_bit_data_map_ holds at most one entry per pin; a constructor for
\* a pin that is in the map replaces the callback of its entry and raises no
\* error; and once a second constructor for pin p has returned (none for p
\* is running), every interrupt of p that finds the queue not full is
\* dispatched to the callback bound last, and to it only.
C24_RebindReplaces ==
    [][ /\ \A t \in Tasks :
             (/\ task[t].pc = "map_insert"
              /\ task'[t].pc # "map_insert"
              /\ task[t].gpio_num \in DOMAIN gpio_bit_data_map_)
             => /\ ~halted'
                /\ DOMAIN gpio_bit_data_map_' = DOMAIN gpio_bit_data_map_
                /\ gpio_bit_data_map_'[task[t].gpio_num]
                      = QueueData(task[t].gpio_num, task[t].individual_isr_for_bit)
        /\ \A p \in hist.rebound :
             (/\ IrqStep /\ hist'.irq.gpio_num = p
              /\ \A t \in Tasks : task[t].gpio_num # p
              /\ Len(gpio_event_queue_) < QUEUE_LEN)
             => /\ Len(gpio_event_queue_') = Len(gpio_event_queue_) + 1
                /\ gpio_event_queue_'[Len(gpio_event_queue_')].data
                      = QueueData(p, hist.bound[p])
      ]_vars

\* This step is gpio_isr_task w returning from xQueueReceive with an event.
ReceiveStep(w) == worker[w].pc = "xQueueReceive" /\ worker'[w].pc = "got"

Looping == {w \in Workers : worker[w].pc \in {"xQueueReceive", "got", "in_callback"}}

\* The state of the dispatcher: Uninitialized until a constructor call gets
\* past the test of `initialized`, Running once a gpio_isr_task is in its
\* loop, Initializing in between.
DispatcherState ==
    IF Looping # {} THEN "Running"
    ELSE IF \/ initialized
            \/ WorkersCreated > 0
            \/ \E t \in Tasks : task[t].pc \in {"xTaskCreate", "set_initialized"}
         THEN "Initializing"
         ELSE "Uninitialized"

StateRank(st) == CASE st = "Uninitialized" -> 0
                   [] st = "Initializing"  -> 1
                   [] st = "Running"       -> 2

InstallFailedStep(w) ==
    /\ worker[w].pc = "gpio_install_isr_service"
    /\ worker'[w].pc # "gpio_install_isr_service"
    /\ isr_service \/ ~isr_service'

\* C27: when gpio_install_isr_service fails, the failure is logged and
\* nothing else: the gpio_isr_task enters its loop, the program goes on, no
\* caller of the constructor is affected; and a constructor call that
\* returns after the failure has inserted the entry of its pin, has
\* attempted gpio_isr_handler_add and returns normally.
C27_InstallFailureLogged ==
    [][ /\ \A w \in Workers :
             InstallFailedStep(w)
                => /\ hist'.error_logged
                   /\ worker'[w].pc = "xQueueReceive"
                   /\ ~halted'
                   /\ task' = task
        /\ \A t \in Tasks :
             (/\ hist.error_logged /\ ~isr_service
              /\ task[t].pc = "gpio_isr_handler_add"
              /\ task'[t].pc # "gpio_isr_handler_add")
                => /\ task'[t] = IdleTask
                   /\ task[t].gpio_num \in DOMAIN gpio_bit_data_map_'
                   /\ hist'.bound[task[t].gpio_num] = task[t].individual_isr_for_bit
                   /\ isr_handlers' = isr_handlers
                   /\ ~halted' ]_vars


\* The references that exist on timer o: those the application holds and
\* those of the OutputPWM objects.
References(o) ==
    HeldOn(o) + Cardinality({id \in DOMAIN outputs : outputs[id].timer_ptr_ = o})

\* C28: under any interleaving of two tasks that use the pools, no two
\* acquisitions obtain the same timer number or the same channel, and no
\* update of a reference count is lost: once the calls have returned, each
\* count is the number of the references that exist.
C28_PoolCallsExclusive ==
    /\ \A o1, o2 \in DOMAIN heap :
          (o1 # o2) => (heap[o1].timer_num_ # heap[o2].timer_num_)
    /\ \A i1, i2 \in DOMAIN outputs :
          (i1 # i2) => (outputs[i1].channel_ # outputs[i2].channel_)
    /\ (\A t \in Tasks : task[t].pc = "idle")
          => \A o \in DOMAIN heap : heap[o].num_references_ = References(o)

\* C29: while the program runs, every registered timer is live with a
\* reference count >= 1 that is the number of the references that exist on
\* it (acquisitions not yet released); no live timer has count 0; and a step
\* that takes a timer's count to 0 leaves its number unregistered and its
\* hardware timer deconfigured.
C29_RegisteredCounted ==
    [][ /\ \A n \in DOMAIN timers_in_use', o \in ObjIds :
              (~halted' /\ o = timers_in_use'[n])
                 => /\ o \in DOMAIN heap'
                    /\ heap'[o].num_references_ >= 1
                    /\ heap'[o].num_references_ = References(o)'
        /\ \A o \in DOMAIN heap' : heap'[o].num_references_ >= 1
        /\ \A o \in DOMAIN heap :
              (o \notin DOMAIN heap')
                 => /\ heap[o].num_references_ = 1
                    /\ heap[o].timer_num_ \notin DOMAIN timers_in_use'
                    /\ ~hwTimer'[heap[o].timer_num_].configured
      ]_vars

\* A registered timer with two references on it, and the timer of another
\* number released to count 0 in the step before.
C29_Witness ==
    /\ last.op = "doneWithTimer"
    /\ last.calls # <<>>
    /\ \E n \in DOMAIN timers_in_use : heap[timers_in_use[n]].num_references_ = 2

\* C30: PWMTimer::setFrequency(f) on timer o leaves the timer objects (number
\* and reference count), the registrations, the references held, the
\* OutputPWM objects (their stored duty), the channels and every other
\* hardware timer as they were; when it returns, the hardware timer of o is
\* configured with frequency f and the 12 bit resolution it had; when
\* ledc_timer_config rejects f the program stops with the hardware untouched.
C30_SetFrequencyFrame ==
    [][ \A o \in DOMAIN heap :
          (last'.op = "PWMTimer::setFrequency" /\ last'.obj = o)
             => /\ heap' = heap
                /\ timers_in_use' = timers_in_use
                /\ held' = held
                /\ outputs' = outputs
                /\ channels_used' = channels_used
                /\ hwChannel' = hwChannel
                /\ \A n \in TimerNums \ {heap[o].timer_num_} : hwTimer'[n] = hwTimer[n]
                /\ (last'.res = "ok")
                      => /\ hwTimer'[heap[o].timer_num_] = ConfiguredTimer(last'.arg)
                         /\ hwTimer'[heap[o].timer_num_].duty_resolution
                               = hwTimer[heap[o].timer_num_].duty_resolution
                         /\ ~halted'
                /\ (last'.res # "ok") => (halted' /\ hwTimer' = hwTimer)
      ]_vars

\* setFrequency has changed the frequency of a timer the application holds,
\* while another timer is configured and an OutputPWM has a duty stored.
C30_Witness ==
    /\ last.op = "PWMTimer::setFrequency"
    /\ last.res = "ok"
    /\ last.obj \in DOMAIN heap
    /\ heap[last.obj].freq_hz_ # last.arg
    /\ hwTimer[heap[last.obj].timer_num_].freq_hz = last.arg
    /\ \E n \in TimerNums \ {heap[last.obj].timer_num_} : hwTimer[n].configured
    /\ \E id \in DOMAIN outputs : outputs[id].duty_ \in 1 .. MAX_DUTY

\* C31: under every interleaving of the binding task and the worker it has
\* created, gpio_install_isr_service has installed the ISR service when the
\* constructor calls gpio_isr_handler_add.
C31_InstallBeforeAttach ==
    [][ \A t \in Tasks :
          (task[t].pc = "gpio_isr_handler_add" /\ task'[t].pc = "idle")
             => isr_service ]_vars

\* C32: when gpioIsrHandler runs for pin p, gpio_bit_data_map_ holds the
\* complete entry of p (gpio_num p, a callback that is not null) and the
\* lookup leaves the map as it is; and the event a gpio_isr_task receives has
\* the number of a bound pin and a callback that is not null -- also while a
\* task is inside the constructor for a pin.
C32_EntryCompleteAtIsr ==
    [][ /\ \A p \in IrqPins :
              (hist'.fired = hist.fired + 1 /\ hist'.irq.gpio_num = p)
                 => /\ p \in DOMAIN gpio_bit_data_map_
                    /\ gpio_bit_data_map_[p].gpio_num = p
                    /\ gpio_bit_data_map_[p].individual_isr_for_bit # NULL
                    /\ gpio_bit_data_map_' = gpio_bit_data_map_
        /\ \A w \in Workers :
              (worker[w].pc = "xQueueReceive" /\ worker'[w].pc = "got")
                 => /\ worker'[w].data.gpio_num \in IrqPins
                    /\ worker'[w].data.individual_isr_for_bit # NULL
      ]_vars

\* C33: every live OutputPWM references a live timer of its own, whose
\* reference count is 1; no two live OutputPWM objects reference the same
\* timer; and at most LEDC_TIMER_MAX OutputPWM objects are live.
C33_OwnTimer ==
    /\ \A id \in DOMAIN outputs :
          /\ outputs[id].timer_ptr_ \in DOMAIN heap
          /\ heap[outputs[id].timer_ptr_].num_references_ = 1
    /\ \A i1, i2 \in DOMAIN outputs :
          (i1 # i2) => (outputs[i1].timer_ptr_ # outputs[i2].timer_ptr_)
    /\ Cardinality(DOMAIN outputs) <= LEDC_TIMER_MAX

\* C34: with the gpio_isr_task scheduled fairly and callbacks that return,
\* every event the queue has accepted is eventually received and its
\* callback called: the s-th accepted event leads to the s-th call, and no
\* event is called more than once or dropped by the task (the calls made,
\* the event in the task's hands and the events queued are the events
\* accepted).
C34_AcceptedDispatched ==
    /\ [](hist.invoked
            + Cardinality({w \in Workers : worker[w].pc = "got"})
            + Len(gpio_event_queue_) = hist.accepted)
    /\ \A s \in 1 .. MaxIrq : (hist.accepted >= s) ~> (hist.invoked >= s)

\* C35: PCA9557::setBit(b, on) makes bit b of the output port register `on`
\* and leaves the other seven bits of the output port register as they
\* were, whatever the register held and whatever the levels at the pins
\* configured as inputs.
C35_SetBitFrame ==
    [][ \A b \in ExpanderBits :
          (last'.op = "PCA9557::setBit" /\ last'.arg = b)
             => /\ BitOf(output_port_register', b) = (IF last'.on THEN 1 ELSE 0)
                /\ \A c \in RegisterBits \ {b} :
                      BitOf(output_port_register', c) = BitOf(output_port_register, c)
      ]_vars

\* C36: configAsOutput(b) clears bit b of the configuration register,
\* configAsInput(b) sets it, and each leaves the other seven bits as they
\* were; after any calls bit b is as the last call for b made it.
C36_ConfigBitFrame ==
    [][ /\ \A b \in ExpanderBits :
              /\ (last'.op = "PCA9557::configAsOutput" /\ last'.arg = b)
                    => /\ BitOf(config_register', b) = 0
                       /\ \A c \in RegisterBits \ {b} :
                             BitOf(config_register', c) = BitOf(config_register, c)
              /\ (last'.op = "PCA9557::configAsInput" /\ last'.arg = b)
                    => /\ BitOf(config_register', b) = 1
                       /\ \A c \in RegisterBits \ {b} :
                             BitOf(config_register', c) = BitOf(config_register, c)
        /\ \A b \in RegisterBits :
              /\ (config_calls'[b] = "configAsOutput") => (BitOf(config_register', b) = 0)
              /\ (config_calls'[b] = "configAsInput") => (BitOf(config_register', b) = 1)
      ]_vars

\* configAsOutput has just cleared the bit of a pin, while another pin is
\* still the output an earlier call made it and a third is the input the
\* last call for it made it.
C36_Witness ==
    /\ last.op = "PCA9557::configAsOutput"
    /\ BitOf(config_register, last.arg) = 0
    /\ \E c \in ExpanderBits \ {last.arg} :
          config_calls[c] = "configAsOutput" /\ BitOf(config_register, c) = 0
    /\ \E d \in ExpanderBits \ {last.arg} :
          config_calls[d] = "configAsInput" /\ BitOf(config_register, d) = 1

====
